---------------------------- MODULE Spec2Model ----------------------------
(***************************************************************************)
(* A model of the Luraph deobfuscator core: LuaLexer, LuaParser, LuraphVM, *)
(* SymbolicExecutor, BytecodeReconstructor, LuraphDecryptor and            *)
(* LuacGenerator.                                                          *)
(*                                                                         *)
(* JavaScript strings are sequences of character codes.  JavaScript values *)
(* of dynamic type are tagged records [k |-> kind, ...].                   *)
(***************************************************************************)
EXTENDS Integers, Sequences, FiniteSets, TLC

VARIABLES
    pc,             \* position of the analysis run on the LuraphVM instance
    source,         \* LuaLexer.input
    tokens,         \* the token list returned by LuaLexer.tokenize
    ast,            \* the ProgramNode returned by LuaParser.parse
    accepted,       \* what isValidLuraphScript returned, in both revisions
    handlers,       \* LuraphVM.handlers (Map<number, LuraphVMHandler>)
    ctxHandlers,    \* LuraphVM.vmContext.handlers
    constants,      \* LuraphVM.constants
    encryptionKey,  \* LuraphVM.encryptionKey / encryptionInfo.key
    encMethod,      \* LuraphVM.encryptionInfo.method
    reconstructedProto, \* DeobfuscationContext.reconstructedProto of analyzeAST
    outcome,        \* what reconstructBytecode returned
    runs,           \* number of analyzeAST calls on this instance so far
    dpc,            \* position of the LuraphDecryptor caller
    dIn,            \* arguments of the last decryptor call
    dOut,           \* the DecryptionResult it returned, or that it threw
    dConstants,     \* a constant before and after the caller handled it
    epc,            \* position of the LuacGenerator caller
    eIn,            \* the VMProto or VMInstruction handed to the generator
    eOut,           \* the bytes or the word the generator produced
    rpc,            \* position of the BytecodeReconstructor caller
    rIn,            \* the context or the proto handed to the reconstructor
    rOut,           \* what the reconstructor returned, or that it threw
    fpc,            \* position of the LuaLexer / LuaParser caller
    fIn,            \* the input text handed to the lexer
    fOut,           \* what the lexer or the parser returned
    hpc,            \* position of handleDeobfuscate in the page component
    inputCode,      \* useState: inputCode
    outputCode,     \* useState: outputCode
    isProcessing,   \* useState: isProcessing
    progress,       \* useState: progress, in tenths of a percent
    currentStep,    \* useState: currentStep
    stepIndex,      \* the loop variable i of handleDeobfuscate
    events,         \* the (currentStep, progress) pairs this run has set
    clicks,         \* number of handleDeobfuscate calls so far
    apc,            \* position of the caller of the analyzer's parts
    aIn,            \* the node or the handler handed to the analyzer
    aOut            \* what the analyzer or the executor returned

pipeVars == <<pc, source, tokens, ast, accepted, handlers, ctxHandlers,
              constants, encryptionKey, encMethod, reconstructedProto,
              outcome, runs>>
decryptVars == <<dpc, dIn, dOut, dConstants>>
emitVars == <<epc, eIn, eOut>>
reconstructVars == <<rpc, rIn, rOut>>
frontVars == <<fpc, fIn, fOut>>
driverVars == <<hpc, inputCode, outputCode, isProcessing, progress, currentStep,
                stepIndex, events, clicks>>

analyzeVars == <<apc, aIn, aOut>>

vars == <<pipeVars, decryptVars, emitVars, reconstructVars, frontVars, driverVars,
          analyzeVars>>

-----------------------------------------------------------------------------
(* Strings *)

ChrLo == " !\"#$%&'()*+,-./0123456789:;<=>?@ABCDEFGHIJKLMNOPQRSTUVWXYZ[\\]^_"
ChrHi == "abcdefghijklmnopqrstuvwxyz{|}~"

\* The character code of a one-character string (codes 32..95 and 97..126).
Ord(c) ==
    IF \E i \in 1..Len(ChrLo) : SubSeq(ChrLo, i, i) = c
    THEN 31 + CHOOSE i \in 1..Len(ChrLo) : SubSeq(ChrLo, i, i) = c
    ELSE 96 + CHOOSE i \in 1..Len(ChrHi) : SubSeq(ChrHi, i, i) = c

\* The code sequence of a string literal.
S(s) == [i \in 1..Len(s) |-> Ord(SubSeq(s, i, i))]

Min(set) == CHOOSE m \in set : \A n \in set : m <= n
Max(set) == CHOOSE m \in set : \A n \in set : m >= n

\* s.substring(from, to) with 0-based positions, from <= to.
Substring(s, from, to) == SubSeq(s, from + 1, to)

\* s.substr(from, len)
Substr(s, from, len) == SubSeq(s, from + 1, Min({Len(s), from + len}))

\* s.includes(t)
Includes(s, t) ==
    \E i \in 0..(Len(s) - Len(t)) : SubSeq(s, i + 1, i + Len(t)) = t

\* s.startsWith(t) at position p
MatchAt(s, p, t) == p + Len(t) <= Len(s) /\ SubSeq(s, p + 1, p + Len(t)) = t

IsDigitCode(c) == c \in 48..57
IsUpperCode(c) == c \in 65..90
IsLowerCode(c) == c \in 97..122
IsAlphaCode(c) == IsUpperCode(c) \/ IsLowerCode(c)
IsAlnumCode(c) == IsAlphaCode(c) \/ IsDigitCode(c)
IsWordCode(c) == IsAlnumCode(c) \/ c = 95
IsHexCode(c) == IsDigitCode(c) \/ c \in 65..70 \/ c \in 97..102

\* String.prototype.toLowerCase on codes below 128
ToLowerCode(c) == IF IsUpperCode(c) THEN c + 32 ELSE c
ToLower(s) == [i \in 1..Len(s) |-> ToLowerCode(s[i])]

-----------------------------------------------------------------------------
(* LuaLexer *)

Keywords ==
    {S("and"), S("break"), S("do"), S("else"), S("elseif"), S("end"),
     S("false"), S("for"), S("function"), S("if"), S("in"), S("local"),
     S("nil"), S("not"), S("or"), S("repeat"), S("return"), S("then"),
     S("true"), S("until"), S("while")}

\* keywordMap: the token type of a keyword is its upper-case enum member.
getKeywordTokenType(keyword) ==
    CHOOSE t \in {"AND", "BREAK", "DO", "ELSE", "ELSEIF", "END", "FALSE",
                  "FOR", "FUNCTION", "IF", "IN", "LOCAL", "NIL", "NOT", "OR",
                  "REPEAT", "RETURN", "THEN", "TRUE", "UNTIL", "WHILE"} :
        ToLower(S(t)) = keyword

\* /\s/ on codes below 256
isWhitespace(c) == c \in {9, 10, 11, 12, 13, 32, 160}

\* this.line and this.column when this.position = p (advance keeps them in
\* step with the position: a newline starts a line, anything else a column).
LineAt(inp, p) == 1 + Cardinality({i \in 1..p : inp[i] = 10})
ColumnAt(inp, p) ==
    LET nls == {i \in 1..p : inp[i] = 10}
    IN  IF nls = {} THEN p + 1 ELSE p - Max(nls) + 1

\* createToken with the position behind the token's value
createTokenAtEnd(inp, type, value, p) ==
    [type |-> type, value |-> value, line |-> LineAt(inp, p),
     column |-> ColumnAt(inp, p), position |-> p + Len(value)]

createToken(inp, type, value, p) ==
    [type |-> type, value |-> value, line |-> LineAt(inp, p),
     column |-> ColumnAt(inp, p), position |-> p]

\* advance(count): the position never passes the end of the input.
advance(inp, p, count) == Min({Len(inp), p + count})

\* The first position q >= p where P fails, or the end of the input.
ScanWhile(inp, p, P(_)) ==
    Min({q \in p..Len(inp) : q = Len(inp) \/ ~P(inp[q + 1])})

skipWhitespace(inp, p) ==
    LET Skip(c) == isWhitespace(c) /\ c # 10 IN ScanWhile(inp, p, Skip)

checkLongStringStart(inp, p) ==
    LET IsEq(c) == c = 61
        q == IF p + 1 >= Len(inp) THEN p + 1 ELSE ScanWhile(inp, p + 1, IsEq)
    IN  IF q < Len(inp) /\ inp[q + 1] = 91 THEN q - (p + 1) ELSE -1

\* The position after the long string of the given level opened at p.
readLongStringEnd(inp, p, level) ==
    LET closePattern == <<93>> \o [i \in 1..level |-> 61] \o <<93>>
        from == advance(inp, p, level + 2)
        hits == {q \in from..Len(inp) : MatchAt(inp, q, closePattern)}
    IN  IF hits = {} THEN Len(inp) ELSE Min(hits) + level + 2

readLongString(inp, p, level) ==
    LET q == readLongStringEnd(inp, p, level)
    IN  [tok |-> createToken(inp, "STRING", Substring(inp, p, q), p), pos |-> q]

readComment(inp, p) ==
    LET q == advance(inp, p, 2)
        level == IF q < Len(inp) /\ inp[q + 1] = 91
                 THEN checkLongStringStart(inp, q) ELSE -1
        NotNewline(c) == c # 10
        e == IF level >= 0 THEN readLongStringEnd(inp, q, level)
             ELSE ScanWhile(inp, q, NotNewline)
    IN  [tok |-> createToken(inp, "COMMENT", Substring(inp, p, e), p), pos |-> e]

readNumber(inp, p) ==
    LET NumChar(c) == IsDigitCode(c) \/ c = 46 \/ ToLowerCode(c) = 101
                      \/ c = 43 \/ c = 45
        e == ScanWhile(inp, p, NumChar)
    IN  [tok |-> createToken(inp, "NUMBER", Substring(inp, p, e), p), pos |-> e]

RECURSIVE readStringEnd(_, _, _)
readStringEnd(inp, p, quote) ==
    IF p >= Len(inp) THEN p
    ELSE IF inp[p + 1] = quote THEN p + 1
    ELSE IF inp[p + 1] = 92 THEN readStringEnd(inp, advance(inp, p, 2), quote)
    ELSE readStringEnd(inp, p + 1, quote)

isEncryptedString(value) ==
    \/ \E i \in 1..(Len(value) - 3) :
          /\ value[i] = 92 /\ value[i + 1] = 120
          /\ IsHexCode(value[i + 2]) /\ IsHexCode(value[i + 3])
    \/ \E i \in 1..(Len(value) - 1) :
          value[i] = 92 /\ IsDigitCode(value[i + 1])
    \/ \E i \in 1..(Len(value) - 4) :
          \A j \in i..(i + 4) : value[j] \notin 32..126

readString(inp, p, quote) ==
    LET e == readStringEnd(inp, advance(inp, p, 1), quote)
        value == Substring(inp, p, e)
    IN  [tok |-> createToken(inp, IF isEncryptedString(value)
                                   THEN "ENCRYPTED_STRING" ELSE "STRING",
                             value, p),
         pos |-> e]

isObfuscatedName(name) ==
    LET n == Len(name)
        Lookalike(c) == c \in {108, 73, 49, 111, 79, 48}
    IN  \/ /\ n >= 21
           /\ IsAlphaCode(name[1]) \/ name[1] = 95
           /\ \A i \in 2..n : IsWordCode(name[i])
        \/ n >= 4 /\ \A i \in 1..n : Lookalike(name[i])
        \/ /\ n >= 12
           /\ IsAlphaCode(name[1]) /\ name[2] = 95
           /\ \A i \in 3..n : IsWordCode(name[i])

readIdentifier(inp, p) ==
    LET e == ScanWhile(inp, p, IsWordCode)
        value == Substring(inp, p, e)
        type == IF ToLower(value) \in Keywords
                THEN getKeywordTokenType(ToLower(value))
                ELSE IF isObfuscatedName(value) THEN "OBFUSCATED_NAME"
                ELSE "IDENTIFIER"
    IN  [tok |-> createToken(inp, type, value, p), pos |-> e]

TwoCharOps ==
    [x \in {S("=="), S("~="), S("<="), S(">="), S(".."), S("::")} |->
        CASE x = S("==") -> "EQUAL"
          [] x = S("~=") -> "NOT_EQUAL"
          [] x = S("<=") -> "LESS_EQUAL"
          [] x = S(">=") -> "GREATER_EQUAL"
          [] x = S("..") -> "CONCAT"
          [] x = S("::") -> "DOUBLE_COLON"]

OneCharOps ==
    [c \in {43, 45, 42, 47, 37, 94, 35, 60, 62, 61, 59, 44, 46, 58, 40, 41,
            123, 125, 91, 93, 10} |->
        CASE c = 43 -> "PLUS"        [] c = 45 -> "MINUS"
          [] c = 42 -> "MULTIPLY"    [] c = 47 -> "DIVIDE"
          [] c = 37 -> "MODULO"      [] c = 94 -> "POWER"
          [] c = 35 -> "LENGTH"      [] c = 60 -> "LESS_THAN"
          [] c = 62 -> "GREATER_THAN" [] c = 61 -> "ASSIGN"
          [] c = 59 -> "SEMICOLON"   [] c = 44 -> "COMMA"
          [] c = 46 -> "DOT"         [] c = 58 -> "COLON"
          [] c = 40 -> "LPAREN"      [] c = 41 -> "RPAREN"
          [] c = 123 -> "LBRACE"     [] c = 125 -> "RBRACE"
          [] c = 91 -> "LBRACKET"    [] c = 93 -> "RBRACKET"
          [] c = 10 -> "NEWLINE"]

\* The token nextToken returns when it returns null.
NoToken == [type |-> "null"]

\* nextToken at position p < Len(inp): the token (or NoToken) and the new
\* position.
nextToken(inp, p) ==
    LET current == inp[p + 1]
        peek == IF p + 1 < Len(inp) THEN inp[p + 2] ELSE 0
        twoChar == Substr(inp, p, 2)
    IN  IF current = 45 /\ peek = 45 THEN readComment(inp, p)
        ELSE IF IsDigitCode(current) THEN readNumber(inp, p)
        ELSE IF current = 34 \/ current = 39 THEN readString(inp, p, current)
        ELSE IF current = 91 /\ checkLongStringStart(inp, p) >= 0
             THEN readLongString(inp, p, checkLongStringStart(inp, p))
        ELSE IF IsAlphaCode(current) \/ current = 95 THEN readIdentifier(inp, p)
        ELSE IF twoChar \in DOMAIN TwoCharOps
             THEN [tok |-> createToken(inp, TwoCharOps[twoChar], twoChar, p),
                   pos |-> p + 2]
        ELSE IF current \in DOMAIN OneCharOps
             THEN [tok |-> createToken(inp, OneCharOps[current], <<current>>, p),
                   pos |-> p + 1]
        ELSE [tok |-> NoToken, pos |-> p + 1]

RECURSIVE tokenizeFrom(_, _, _)
tokenizeFrom(inp, p, acc) ==
    LET q == skipWhitespace(inp, p)
    IN  IF p >= Len(inp) \/ q >= Len(inp)
        THEN Append(acc, createToken(inp, "EOF", <<>>, Min({Len(inp), q})))
        ELSE LET r == nextToken(inp, q)
             IN  tokenizeFrom(inp, r.pos,
                              IF r.tok = NoToken THEN acc ELSE Append(acc, r.tok))

tokenize(inp) == tokenizeFrom(inp, 0, <<>>)

-----------------------------------------------------------------------------
(* JavaScript values *)

Undefined == [k |-> "undefined"]
Null == [k |-> "null"]
Bool(b) == [k |-> "boolean", v |-> b]
Str(t) == [k |-> "string", v |-> t]

\* A number m * 10^e in lowest terms (e <= 0, and e = 0 for an integer).
RECURSIVE Num(_, _)
Num(m, e) ==
    IF m = 0 THEN [k |-> "number", m |-> 0, e |-> 0]
    ELSE IF e > 0 THEN Num(m * 10, e - 1)
    ELSE IF e < 0 /\ m % 10 = 0 THEN Num(m \div 10, e + 1)
    ELSE [k |-> "number", m |-> m, e |-> e]

RECURSIVE DigitsValue(_)
DigitsValue(t) ==
    IF t = <<>> THEN 0
    ELSE 10 * DigitsValue(SubSeq(t, 1, Len(t) - 1)) + (t[Len(t)] - 48)

\* parseFloat on a text that starts with a digit: the longest prefix
\* digits [. digits] [e [+-] digits].
parseFloat(t) ==
    LET i == ScanWhile(t, 0, IsDigitCode)
        f == IF i < Len(t) /\ t[i + 1] = 46
             THEN ScanWhile(t, i + 1, IsDigitCode) ELSE i
        frac == IF f > i THEN Substring(t, i + 1, f) ELSE <<>>
        hasE == f < Len(t) /\ ToLowerCode(t[f + 1]) = 101
        sgn == IF hasE /\ f + 1 < Len(t) /\ t[f + 2] \in {43, 45} THEN 1 ELSE 0
        x == IF hasE /\ f + 1 + sgn <= Len(t)
             THEN ScanWhile(t, f + 1 + sgn, IsDigitCode) ELSE f + 1 + sgn
        exp == IF hasE /\ x > f + 1 + sgn
               THEN (IF sgn = 1 /\ t[f + 2] = 45 THEN -1 ELSE 1)
                    * DigitsValue(Substring(t, f + 1 + sgn, x))
               ELSE 0
    IN  Num(DigitsValue(Substring(t, 0, i) \o frac), exp - Len(frac))

-----------------------------------------------------------------------------
(* LuaParser *)

\* The constructor drops WHITESPACE and COMMENT tokens.
filterTokens(toks) == SelectSeq(toks, LAMBDA t : t.type \notin {"WHITESPACE", "COMMENT"})

\* this.current when this.position = p
Cur(toks, p) == IF p < Len(toks) THEN toks[p + 1] ELSE toks[Len(toks)]

isAtEnd(toks, p) == p >= Len(toks) \/ Cur(toks, p).type = "EOF"

check(toks, p, types) == ~isAtEnd(toks, p) /\ Cur(toks, p).type \in types

\* The first position q >= p whose token is not of one of the types.
SkipTokens(toks, p, types) ==
    Min({q \in p..Len(toks) : ~check(toks, q, types)})

\* A call that returned node with the parser at pos, or threw at pos.
Ok(p, n) == [ok |-> TRUE, pos |-> p, node |-> n]
Thrown(p) == [ok |-> FALSE, pos |-> p, node |-> Undefined]

\* The value parseStatement returns for null.
NoNode == [type |-> "null"]

\* parseIdentifier reads this.previous() and consumes nothing.
parseIdentifier(toks, p) ==
    [type |-> "Identifier", name |-> toks[p].value,
     isObfuscated |-> toks[p].type = "OBFUSCATED_NAME"]

\* The names a loop "while match(COMMA) push(parseIdentifier())" collects
\* from position p, after a first parseIdentifier at p.
IdentifierRun(toks, p) ==
    [i \in 1..(SkipTokens(toks, p, {"COMMA"}) - p + 1) |->
        parseIdentifier(toks, p + i - 1)]

BinaryExpression(left, operator, right) ==
    [type |-> "BinaryExpression", left |-> left, operator |-> operator,
     right |-> right]

isVMCall(callee, args) ==
    /\ callee.type = "Identifier"
    /\ \/ \E pre \in {S("vm_"), S("handler_"), S("op_"), S("exec_")} :
             MatchAt(callee.name, 0, pre)
       \/ Len(args) >= 3 /\ Len(callee.name) > 15

detectVMOperation(callee, args) ==
    IF callee.type # "Identifier" THEN "unknown"
    ELSE LET name == callee.name
         IN  IF Includes(name, S("move")) \/ Includes(name, S("MOVE")) THEN "MOVE"
             ELSE IF Includes(name, S("load")) \/ Includes(name, S("LOAD")) THEN "LOADK"
             ELSE IF Includes(name, S("call")) \/ Includes(name, S("CALL")) THEN "CALL"
             ELSE IF Includes(name, S("jump")) \/ Includes(name, S("JMP")) THEN "JMP"
             ELSE "unknown"

hasVMOperations(block) ==
    \E i \in 1..Len(block.statements) :
        /\ block.statements[i].type = "CallExpression"
        /\ isVMCall(block.statements[i].callee, block.statements[i].arguments)

\* /handler_\d+/, /vm_\w+/ and /[a-zA-Z_][a-zA-Z0-9_]{20,}/ are unanchored.
isVMHandler(name, body) ==
    \/ \E i \in 0..Len(name) :
          MatchAt(name, i, S("handler_")) /\ i + 8 < Len(name)
          /\ IsDigitCode(name[i + 9])
    \/ \E i \in 0..Len(name) :
          MatchAt(name, i, S("vm_")) /\ i + 3 < Len(name)
          /\ IsWordCode(name[i + 4])
    \/ \E i \in 1..(Len(name) - 20) :
          /\ IsAlphaCode(name[i]) \/ name[i] = 95
          /\ \A j \in (i + 1)..(i + 20) : IsWordCode(name[j])
    \/ hasVMOperations(body)

\* parseInt of the first run of digits in the name, or -1.
extractHandlerIndex(name) ==
    LET ds == {i \in 1..Len(name) : IsDigitCode(name[i])}
    IN  IF ds = {} THEN -1
        ELSE DigitsValue(Substring(name, Min(ds) - 1,
                                   ScanWhile(name, Min(ds) - 1, IsDigitCode)))

isConstantTable(fields) ==
    /\ \A i \in 1..Len(fields) :
          fields[i].value.type \in {"Literal", "EncryptedString"}
    /\ Len(fields) > 5

\* synchronize without its first advance
synchronizeInPlace(toks, p) ==
    LET Stops(q) == \/ isAtEnd(toks, q)
                    \/ q > 0 /\ toks[q].type = "SEMICOLON"
                    \/ Cur(toks, q).type \in {"FUNCTION", "LOCAL", "FOR", "IF",
                                              "WHILE", "RETURN"}
    IN  Min({q \in p..Len(toks) : Stops(q)})

synchronize(toks, p) ==
    LET start == IF isAtEnd(toks, p) THEN p ELSE p + 1
        Stops(q) == \/ isAtEnd(toks, q)
                    \/ toks[q].type = "SEMICOLON"
                    \/ Cur(toks, q).type \in {"FUNCTION", "LOCAL", "FOR", "IF",
                                              "WHILE", "RETURN"}
    IN  Min({q \in start..Len(toks) : Stops(q)})

RECURSIVE Invoke(_, _, _, _)

\* The token types each binary level matches, loosest first: parseOr,
\* parseAnd, parseEquality, parseComparison, parseConcat, parseAdditive,
\* parseMultiplicative.
BinaryLevels ==
    << {"OR"}, {"AND"}, {"EQUAL", "NOT_EQUAL"},
       {"GREATER_THAN", "GREATER_EQUAL", "LESS_THAN", "LESS_EQUAL"},
       {"CONCAT"}, {"PLUS", "MINUS"}, {"MULTIPLY", "DIVIDE", "MODULO"} >>

parseBinaryLevel(toks, p, level) ==
    LET Operand(l) ==
            IF l.ok THEN Invoke("parseBinaryLoop", toks, l.pos, <<level, l.node>>) ELSE l
    IN  IF level > Len(BinaryLevels) THEN Invoke("parseUnary", toks, p, <<>>)
        ELSE Operand(Invoke("parseBinaryLevel", toks, p, <<level + 1>>))

\* while (this.match(...)) { expr = BinaryExpression(expr, op, operand) }
parseBinaryLoop(toks, p, level, expr) ==
    LET Right(r) ==
            IF r.ok
            THEN Invoke("parseBinaryLoop", toks, r.pos, <<level, BinaryExpression(expr, toks[p + 1].value, r.node)>>)
            ELSE r
    IN  IF check(toks, p, BinaryLevels[level])
        THEN Right(Invoke("parseBinaryLevel", toks, p + 1, <<level + 1>>))
        ELSE Ok(p, expr)

parseExpression(toks, p) == Invoke("parseBinaryLevel", toks, p, <<1>>)
parseConcat(toks, p) == Invoke("parseBinaryLevel", toks, p, <<5>>)

parseExpressionListFrom(toks, p, acc) ==
    LET Item(e) ==
            IF ~e.ok THEN e
            ELSE IF check(toks, e.pos, {"COMMA"})
            THEN Invoke("parseExpressionListFrom", toks, e.pos + 1, <<Append(acc, e.node)>>)
            ELSE Ok(e.pos, Append(acc, e.node))
    IN  Item(parseExpression(toks, p))

parseExpressionList(toks, p) == Invoke("parseExpressionListFrom", toks, p, <<<<>>>>)

parseUnary(toks, p) ==
    LET Operand(r) ==
            IF r.ok
            THEN Ok(r.pos, [type |-> "UnaryExpression",
                            operator |-> toks[p + 1].value, argument |-> r.node])
            ELSE r
        Power(e) == IF e.ok THEN Invoke("parsePowerLoop", toks, e.pos, <<e.node>>) ELSE e
        Call(c) == IF c.ok THEN Power(Invoke("parseCallLoop", toks, c.pos, <<c.node>>)) ELSE c
    IN  IF check(toks, p, {"NOT", "MINUS", "LENGTH"})
        THEN Operand(Invoke("parseUnary", toks, p + 1, <<>>))
        ELSE Call(Invoke("parsePrimary", toks, p, <<>>))

\* parsePower: while (this.match(POWER)) { right = parseUnary() ... }
parsePowerLoop(toks, p, expr) ==
    LET Right(r) ==
            IF r.ok
            THEN Invoke("parsePowerLoop", toks, r.pos, <<BinaryExpression(expr, toks[p + 1].value, r.node)>>)
            ELSE r
    IN  IF check(toks, p, {"POWER"}) THEN Right(Invoke("parseUnary", toks, p + 1, <<>>))
        ELSE Ok(p, expr)

\* finishCall, after the LPAREN at p - 1 was matched
finishCall(toks, p, callee, args) ==
    LET Call(vm) ==
            [type |-> "CallExpression", callee |-> callee,
             arguments |-> args.node, isVMCall |-> vm,
             vmOperation |-> IF vm THEN detectVMOperation(callee, args.node)
                             ELSE "undefined"]
    IN  IF ~args.ok THEN args
        ELSE IF ~check(toks, args.pos, {"RPAREN"}) THEN Thrown(args.pos)
        ELSE Ok(args.pos + 1, Call(isVMCall(callee, args.node)))

\* parseCall: the loop over '(' , '[' and '.' after a primary
parseCallLoop(toks, p, expr) ==
    LET Called(c) == IF c.ok THEN Invoke("parseCallLoop", toks, c.pos, <<c.node>>) ELSE c
        Index(i) ==
            IF ~i.ok THEN i
            ELSE IF ~check(toks, i.pos, {"RBRACKET"}) THEN Thrown(i.pos)
            ELSE Invoke("parseCallLoop", toks, i.pos + 1, <<BinaryExpression(expr, S("[]"), i.node)>>)
    IN  IF check(toks, p, {"LPAREN"})
        THEN Called(finishCall(toks, p + 1, expr,
                               IF check(toks, p + 1, {"RPAREN"})
                               THEN Ok(p + 1, <<>>)
                               ELSE parseExpressionList(toks, p + 1)))
        ELSE IF check(toks, p, {"LBRACKET"})
        THEN Index(parseExpression(toks, p + 1))
        ELSE IF check(toks, p, {"DOT"})
        THEN Invoke("parseCallLoop", toks, p + 1, <<BinaryExpression(expr, S("."), parseIdentifier(toks, p + 1))>>)
        ELSE Ok(p, expr)

parseTableField(toks, p) ==
    LET Record(key, value) ==
            IF ~value.ok THEN value
            ELSE Ok(value.pos, [type |-> "TableField", key |-> key.node,
                                value |-> value.node, kind |-> "record"])
        Keyed(key) ==
            IF ~key.ok THEN key
            ELSE IF ~check(toks, key.pos, {"RBRACKET"}) THEN Thrown(key.pos)
            ELSE IF ~check(toks, key.pos + 1, {"ASSIGN"}) THEN Thrown(key.pos + 1)
            ELSE Record(key, parseExpression(toks, key.pos + 2))
        Plain(expr) ==
            IF ~expr.ok THEN expr
            ELSE IF check(toks, expr.pos, {"ASSIGN"})
            THEN Record(expr, parseExpression(toks, expr.pos + 1))
            ELSE Ok(expr.pos, [type |-> "TableField", key |-> Undefined,
                               value |-> expr.node, kind |-> "list"])
    IN  IF check(toks, p, {"LBRACKET"}) THEN Keyed(parseExpression(toks, p + 1))
        ELSE Plain(parseExpression(toks, p))

\* parseTableConstructor: the fields up to the closing brace
parseTableFields(toks, p, acc) ==
    LET Field(f) ==
            IF ~f.ok THEN f
            ELSE IF check(toks, f.pos, {"COMMA", "SEMICOLON"})
                    /\ ~check(toks, f.pos + 1, {"RBRACE"})
            THEN Invoke("parseTableFields", toks, f.pos + 1, <<Append(acc, f.node)>>)
            ELSE Ok(IF check(toks, f.pos, {"COMMA", "SEMICOLON"})
                    THEN f.pos + 1 ELSE f.pos,
                    Append(acc, f.node))
    IN  Field(parseTableField(toks, p))

parseTableConstructor(toks, p) ==
    LET Close(fields) ==
            IF ~fields.ok THEN fields
            ELSE IF ~check(toks, fields.pos, {"RBRACE"}) THEN Thrown(fields.pos)
            ELSE Ok(fields.pos + 1,
                    [type |-> "TableConstructor", fields |-> fields.node,
                     isConstantTable |-> isConstantTable(fields.node)])
    IN  Close(IF check(toks, p, {"RBRACE"}) THEN Ok(p, <<>>)
              ELSE Invoke("parseTableFields", toks, p, <<<<>>>>))

parsePrimary(toks, p) ==
    LET Literal(value, dataType) ==
            [type |-> "Literal", value |-> value, dataType |-> dataType]
        Quoted(value) == Literal(Str(SubSeq(value, 2, Len(value) - 1)), "string")
        Grouped(e) ==
            IF ~e.ok THEN e
            ELSE IF ~check(toks, e.pos, {"RPAREN"}) THEN Thrown(e.pos)
            ELSE Ok(e.pos + 1, e.node)
    IN  IF check(toks, p, {"TRUE"}) THEN Ok(p + 1, Literal(Bool(TRUE), "boolean"))
        ELSE IF check(toks, p, {"FALSE"}) THEN Ok(p + 1, Literal(Bool(FALSE), "boolean"))
        ELSE IF check(toks, p, {"NIL"}) THEN Ok(p + 1, Literal(Null, "nil"))
        ELSE IF check(toks, p, {"NUMBER"})
             THEN Ok(p + 1, Literal(parseFloat(toks[p + 1].value), "number"))
        ELSE IF check(toks, p, {"STRING"})
             THEN Ok(p + 1, Quoted(toks[p + 1].value))
        ELSE IF check(toks, p, {"ENCRYPTED_STRING"})
             THEN Ok(p + 1, [type |-> "EncryptedString",
                             encryptedValue |-> toks[p + 1].value,
                             encryptionMethod |-> "luraph"])
        ELSE IF check(toks, p, {"IDENTIFIER", "OBFUSCATED_NAME"})
             THEN Ok(p + 1, parseIdentifier(toks, p + 1))
        ELSE IF check(toks, p, {"LPAREN"})
             THEN Grouped(parseExpression(toks, p + 1))
        ELSE IF check(toks, p, {"LBRACE"}) THEN parseTableConstructor(toks, p + 1)
        ELSE Thrown(p)

\* parseBlock: statements up to END, ELSE, ELSEIF or the end of the tokens.
\* The result is the position after the block and the BlockStatement.
parseBlockFrom(toks, p, acc) ==
    LET Pushed(stmt) ==
            Invoke("parseBlockFrom", toks, stmt.pos, <<IF stmt.node = NoNode THEN acc ELSE Append(acc, stmt.node)>>)
    IN  IF check(toks, p, {"END", "ELSE", "ELSEIF"}) \/ isAtEnd(toks, p)
        THEN [pos |-> p, node |-> [type |-> "BlockStatement", statements |-> acc]]
        ELSE Pushed(Invoke("parseStatement", toks, p, <<>>))

parseBlock(toks, p) == Invoke("parseBlockFrom", toks, p, <<<<>>>>)

\* parseFunctionDeclaration, after FUNCTION at p - 1 was consumed
parseFunctionDeclaration(toks, p, isLocal) ==
    LET Declared(name, parameters, body, handler) ==
            [type |-> "FunctionDeclaration", name |-> name,
             parameters |-> parameters, body |-> body,
             isLocal |-> isLocal, isVMHandler |-> handler,
             handlerIndex |-> IF handler
                              THEN Num(extractHandlerIndex(name.name), 0)
                              ELSE Undefined]
        Named(name, parameters, body) ==
            IF ~check(toks, body.pos, {"END"}) THEN Thrown(body.pos)
            ELSE Ok(body.pos + 1,
                    Declared(name, parameters, body.node,
                             isVMHandler(name.name, body.node)))
        Body(q, parameters) ==
            IF ~check(toks, q, {"RPAREN"}) THEN Thrown(q)
            ELSE Named(parseIdentifier(toks, p), parameters, parseBlock(toks, q + 1))
    IN  IF ~check(toks, p, {"LPAREN"}) THEN Thrown(p)
        ELSE IF check(toks, p + 1, {"RPAREN"}) THEN Body(p + 1, <<>>)
        ELSE Body(SkipTokens(toks, p + 1, {"COMMA"}), IdentifierRun(toks, p + 1))

\* parseLocalStatement, after LOCAL at p - 1 was consumed
parseLocalStatement(toks, p) ==
    LET Values(values) ==
            IF ~values.ok THEN values
            ELSE Ok(values.pos,
                    [type |-> "AssignmentExpression",
                     left |-> IdentifierRun(toks, p), right |-> values.node,
                     isLocal |-> TRUE])
        Names(q) ==
            Values(IF check(toks, q, {"ASSIGN"})
                   THEN parseExpressionList(toks, q + 1) ELSE Ok(q, <<>>))
    IN  IF check(toks, p, {"FUNCTION"})
        THEN parseFunctionDeclaration(toks, p + 1, TRUE)
        ELSE Names(SkipTokens(toks, p, {"COMMA"}))

\* parseIfStatement, after IF or ELSEIF at p - 1 was consumed
parseIfStatement(toks, p) ==
    LET Else(b) == Ok(b.pos, b.node)
        Built(condition, consequent, alternate) ==
            IF ~alternate.ok THEN alternate
            ELSE IF ~check(toks, alternate.pos, {"END"}) THEN Thrown(alternate.pos)
            ELSE Ok(alternate.pos + 1,
                    [type |-> "IfStatement", condition |-> condition.node,
                     consequent |-> consequent.node, alternate |-> alternate.node])
        Consequent(condition, consequent) ==
            Built(condition, consequent,
                  IF check(toks, consequent.pos, {"ELSEIF"})
                  THEN Invoke("parseIfStatement", toks, consequent.pos + 1, <<>>)
                  ELSE IF check(toks, consequent.pos, {"ELSE"})
                  THEN Else(parseBlock(toks, consequent.pos + 1))
                  ELSE Ok(consequent.pos, Undefined))
        Condition(condition) ==
            IF ~condition.ok THEN condition
            ELSE IF ~check(toks, condition.pos, {"THEN"}) THEN Thrown(condition.pos)
            ELSE Consequent(condition, parseBlock(toks, condition.pos + 1))
    IN  Condition(parseExpression(toks, p))

\* The tail "consume(DO); parseBlock(); consume(END)" of the loop statements
parseDoBlock(toks, p) ==
    LET Body(body) ==
            IF ~check(toks, body.pos, {"END"}) THEN Thrown(body.pos)
            ELSE Ok(body.pos + 1, body.node)
    IN  IF ~check(toks, p, {"DO"}) THEN Thrown(p)
        ELSE Body(parseBlock(toks, p + 1))

\* parseForStatement, after FOR at p - 1 was consumed
parseForStatement(toks, p) ==
    LET Numeric(init, limit, step, body) ==
            IF ~body.ok THEN body
            ELSE Ok(body.pos,
                    [type |-> "ForStatement",
                     init |-> [type |-> "AssignmentExpression",
                               left |-> <<parseIdentifier(toks, p)>>,
                               right |-> <<init.node>>, isLocal |-> TRUE],
                     condition |-> limit.node, update |-> step.node,
                     body |-> body.node, kind |-> "numeric"])
        Step(init, limit, step) ==
            IF ~step.ok THEN step
            ELSE Numeric(init, limit, step, parseDoBlock(toks, step.pos))
        Limit(init, limit) ==
            IF ~limit.ok THEN limit
            ELSE Step(init, limit,
                      IF check(toks, limit.pos, {"COMMA"})
                      THEN parseExpression(toks, limit.pos + 1)
                      ELSE Ok(limit.pos, [type |-> "Literal", value |-> Num(1, 0),
                                          dataType |-> "number"]))
        Start(init) ==
            IF ~init.ok THEN init
            ELSE IF ~check(toks, init.pos, {"COMMA"}) THEN Thrown(init.pos)
            ELSE Limit(init, parseExpression(toks, init.pos + 1))
        Generic(expressions, body) ==
            IF ~body.ok THEN body
            ELSE Ok(body.pos,
                    [type |-> "ForStatement",
                     init |-> [type |-> "AssignmentExpression",
                               left |-> IdentifierRun(toks, p),
                               right |-> expressions.node, isLocal |-> TRUE],
                     condition |-> expressions.node[1],
                     update |-> [type |-> "Literal", value |-> Null,
                                 dataType |-> "nil"],
                     body |-> body.node, kind |-> "generic"])
        Expressions(expressions) ==
            IF ~expressions.ok THEN expressions
            ELSE Generic(expressions, parseDoBlock(toks, expressions.pos))
        Names(q) ==
            IF ~check(toks, q, {"IN"}) THEN Thrown(q)
            ELSE Expressions(parseExpressionList(toks, q + 1))
    IN  IF check(toks, p, {"ASSIGN"}) THEN Start(parseExpression(toks, p + 1))
        ELSE Names(SkipTokens(toks, p, {"COMMA"}))

\* parseWhileStatement, after WHILE at p - 1 was consumed
parseWhileStatement(toks, p) ==
    LET Body(condition, body) ==
            IF ~body.ok THEN body
            ELSE Ok(body.pos, [type |-> "WhileStatement",
                               condition |-> condition.node, body |-> body.node])
        Condition(condition) ==
            IF ~condition.ok THEN condition
            ELSE Body(condition, parseDoBlock(toks, condition.pos))
    IN  Condition(parseExpression(toks, p))

\* parseReturnStatement, after RETURN at p - 1 was consumed
parseReturnStatement(toks, p) ==
    LET Arguments(args) ==
            IF ~args.ok THEN args
            ELSE Ok(args.pos, [type |-> "ReturnStatement", arguments |-> args.node])
    IN  Arguments(IF ~check(toks, p, {"NEWLINE", "END"}) /\ ~isAtEnd(toks, p)
                  THEN parseExpressionList(toks, p) ELSE Ok(p, <<>>))

parseExpressionStatement(toks, p) ==
    LET Assigned(expr, values) ==
            IF ~values.ok THEN values
            ELSE Ok(values.pos,
                    [type |-> "AssignmentExpression", left |-> <<expr.node>>,
                     right |-> values.node, isLocal |-> FALSE])
        Expression(expr) ==
            IF ~expr.ok THEN expr
            ELSE IF ~check(toks, expr.pos, {"ASSIGN"}) THEN expr
            ELSE Assigned(expr, parseExpressionList(toks, expr.pos + 1))
    IN  Expression(parseExpression(toks, p))

\* The try block of parseStatement: the statement, null at the end of the
\* input, or the position at which an error was thrown.
parseStatementBody(toks, p) ==
    LET Statement(q) ==
            IF isAtEnd(toks, q) THEN Ok(q, NoNode)
            ELSE IF check(toks, q, {"LOCAL"}) THEN parseLocalStatement(toks, q + 1)
            ELSE IF check(toks, q, {"FUNCTION"})
                 THEN parseFunctionDeclaration(toks, q + 1, FALSE)
            ELSE IF check(toks, q, {"IF"}) THEN Invoke("parseIfStatement", toks, q + 1, <<>>)
            ELSE IF check(toks, q, {"FOR"}) THEN parseForStatement(toks, q + 1)
            ELSE IF check(toks, q, {"WHILE"}) THEN parseWhileStatement(toks, q + 1)
            ELSE IF check(toks, q, {"RETURN"}) THEN parseReturnStatement(toks, q + 1)
            ELSE parseExpressionStatement(toks, q)
    IN  Statement(SkipTokens(toks, p, {"NEWLINE"}))

\* parseStatement: the position after the statement and the statement, or
\* NoNode when the end is reached or an error was caught and synchronized.
parseStatement(toks, p) ==
    LET Caught(r) ==
            IF r.ok THEN [pos |-> r.pos, node |-> r.node]
            ELSE [pos |-> synchronize(toks, r.pos), node |-> NoNode]
    IN  Caught(Invoke("parseStatementBody", toks, p, <<>>))

\* parse: the ProgramNode of a token list
parse(tokenList) ==
    LET Program(toks) ==
            LET RECURSIVE Loop(_, _)
                Pushed(stmt, acc) ==
                    Loop(stmt.pos, IF stmt.node = NoNode THEN acc
                                   ELSE Append(acc, stmt.node))
                Loop(p, acc) ==
                    IF isAtEnd(toks, p) THEN acc
                    ELSE Pushed(Invoke("parseStatement", toks, p, <<>>), acc)
            IN  [type |-> "BlockStatement", statements |-> Loop(0, <<>>)]
    IN  Program(filterTokens(tokenList))


\* this.method(...) with the parser at position p; a holds the further arguments.
Invoke(method, toks, p, a) ==
    CASE method = "parseBinaryLevel" -> parseBinaryLevel(toks, p, a[1])
      [] method = "parseBinaryLoop" -> parseBinaryLoop(toks, p, a[1], a[2])
      [] method = "parseUnary" -> parseUnary(toks, p)
      [] method = "parsePowerLoop" -> parsePowerLoop(toks, p, a[1])
      [] method = "parseCallLoop" -> parseCallLoop(toks, p, a[1])
      [] method = "parsePrimary" -> parsePrimary(toks, p)
      [] method = "parseTableFields" -> parseTableFields(toks, p, a[1])
      [] method = "parseExpressionListFrom" -> parseExpressionListFrom(toks, p, a[1])
      [] method = "parseBlockFrom" -> parseBlockFrom(toks, p, a[1])
      [] method = "parseStatement" -> parseStatement(toks, p)
      [] method = "parseStatementBody" -> parseStatementBody(toks, p)
      [] method = "parseIfStatement" -> parseIfStatement(toks, p)

-----------------------------------------------------------------------------
(* Bit operations on non-negative integers *)

RECURSIVE BitXor(_, _)
BitXor(a, b) ==
    IF a = 0 THEN b ELSE IF b = 0 THEN a
    ELSE ((a + b) % 2) + 2 * BitXor(a \div 2, b \div 2)

RECURSIVE BitAnd(_, _)
BitAnd(a, b) ==
    IF a = 0 \/ b = 0 THEN 0
    ELSE ((a % 2) * (b % 2)) + 2 * BitAnd(a \div 2, b \div 2)

BitOr(a, b) == a + b - BitAnd(a, b)

-----------------------------------------------------------------------------
(* LuraphDecryptor *)

\* A DecryptionResult, or the record of a call that threw.
Result(success, decrypted, method) ==
    [threw |-> FALSE, success |-> success, decrypted |-> decrypted,
     method |-> method]
Threw == [threw |-> TRUE, success |-> FALSE, decrypted |-> <<>>, method |-> ""]

\* stringToBytes of a string: a Uint8Array keeps the low 8 bits of each code.
\* Of undefined it throws a TypeError (str.length); callers test for it.
stringToBytes(str) == [i \in 1..Len(str.v) |-> str.v[i] % 256]

\* bytes[i % bytes.length] for a 0-based i: undefined (which the bit
\* operators read as 0) when the array is empty.
KeyByteAt(bytes, i) == IF Len(bytes) = 0 THEN 0 ELSE bytes[(i % Len(bytes)) + 1]

\* xorDecryptV1 with the key read from its second byte on
xorDecryptV1Shifted(encrypted, key) ==
    IF key = Undefined THEN Threw
    ELSE Result(TRUE,
                [i \in 1..Len(encrypted) |->
                    BitXor(encrypted[i], KeyByteAt(stringToBytes(key), i))],
                "xor_v1")

xorDecryptV1(encrypted, key) ==
    IF key = Undefined THEN Threw
    ELSE LET keyBytes == stringToBytes(key)
         IN  Result(TRUE,
                    [i \in 1..Len(encrypted) |->
                        BitXor(encrypted[i], KeyByteAt(keyBytes, i - 1))],
                    "xor_v1")

\* keyIndex follows i modulo the key length; with an empty key keyByte is
\* undefined and (undefined + i) & 0xFF = 0.
xorDecryptV2(encrypted, key) ==
    IF key = Undefined THEN Threw
    ELSE LET keyBytes == stringToBytes(key)
             rotatedKey(i) == IF Len(keyBytes) = 0 THEN 0
                              ELSE (KeyByteAt(keyBytes, i) + i) % 256
         IN  Result(TRUE,
                    [i \in 1..Len(encrypted) |->
                        BitXor(encrypted[i], rotatedKey(i - 1))],
                    "xor_v2")

\* parseInt(s, 16) stored into a Uint8Array, for s of at most two characters:
\* leading white space and a sign are skipped, then the hex digits are read;
\* NaN is stored as 0.
parseIntHex(s) ==
    LET HexVal(c) == IF IsDigitCode(c) THEN c - 48
                     ELSE IF c \in 65..70 THEN c - 55 ELSE c - 87
        IsSpace(c) == c \in {9, 10, 11, 12, 13, 32, 160}
    IN  IF Len(s) = 0 THEN 0
        ELSE IF IsHexCode(s[1])
        THEN IF Len(s) = 2 /\ IsHexCode(s[2])
             THEN 16 * HexVal(s[1]) + HexVal(s[2]) ELSE HexVal(s[1])
        ELSE IF Len(s) = 2 /\ IsHexCode(s[2])
        THEN IF IsSpace(s[1]) \/ s[1] = 43 THEN HexVal(s[2])
             ELSE IF s[1] = 45 THEN (256 - HexVal(s[2])) % 256 ELSE 0
        ELSE 0

\* new Uint8Array(hex.length / 2) truncates the length; a write past the end
\* of the array is ignored.
hexToBytes(hex) ==
    [i \in 1..(Len(hex) \div 2) |-> parseIntHex(Substr(hex, 2 * (i - 1), 2))]

xorBytes(a, b) == [i \in 1..Len(a) |-> BitXor(a[i], KeyByteAt(b, i - 1))]

reverseBitManipulation(bytes) ==
    [i \in 1..Len(bytes) |->
        BitOr(bytes[i] * 8, bytes[i] \div 32) % 256]

\* (bytes[i] - keyByte) & 0xFF; with an empty key the difference is NaN and
\* the byte stored is 0.
customSubstitution(bytes, key) ==
    [i \in 1..Len(bytes) |->
        IF Len(key) = 0 THEN 0
        ELSE (bytes[i] - KeyByteAt(key, i - 1) + 256) % 256]

\* iv[i] = key.charCodeAt(i % key.length) ^ i; charCodeAt of an empty key is
\* NaN, which the xor reads as 0.
generateIV(key) ==
    [i \in 1..16 |-> BitXor(KeyByteAt(key.v, i - 1), i - 1) % 256]

\* Each 16-byte block is xor-ed with the first 16 key bytes and with the
\* previous ciphertext block (the iv for the first).
simpleAESDecrypt(encrypted, key, iv) ==
    LET key16 == SubSeq(key, 1, Min({16, Len(key)}))
        block(j) == SubSeq(encrypted, 16 * j + 1, Min({16 * j + 16, Len(encrypted)}))
        previousBlock(j) == IF j = 0 THEN iv ELSE block(j - 1)
        finalBlock(j) == xorBytes(xorBytes(block(j), key16), previousBlock(j))
    IN  [i \in 1..Len(encrypted) |->
            finalBlock((i - 1) \div 16)[((i - 1) % 16) + 1]]

modifyKeyForLuraph(key) ==
    [i \in 1..Len(key) |-> (key[i] + (i - 1) * 7) % 256]

\* bytes.slice(0, length - padding): a negative end counts from the end.
removeLuraphPadding(bytes) ==
    LET paddingLength == IF Len(bytes) = 0 THEN 0 ELSE bytes[Len(bytes)]
        end == Len(bytes) - paddingLength
    IN  IF paddingLength > 0 /\ paddingLength <= 16
        THEN SubSeq(bytes, 1, IF end < 0 THEN Max({Len(bytes) + end, 0}) ELSE end)
        ELSE bytes

luraphAESDecrypt(encrypted, key, iv) ==
    removeLuraphPadding(simpleAESDecrypt(encrypted, modifyKeyForLuraph(key), iv))

\* An iv that is undefined or empty is falsy.
HasIv(iv) == iv # Undefined /\ iv.v # <<>>

\* The TypeError of stringToBytes(undefined) is caught inside the method.
aesDecrypt(encrypted, key, iv) ==
    IF key = Undefined THEN Result(FALSE, encrypted, "aes_cbc")
    ELSE Result(TRUE,
                simpleAESDecrypt(hexToBytes(encrypted), stringToBytes(key),
                                 IF HasIv(iv) THEN hexToBytes(iv.v)
                                 ELSE [i \in 1..16 |-> 0]),
                "aes_cbc")

aesDecryptV2(encrypted, key, iv) ==
    IF key = Undefined THEN Result(FALSE, encrypted, "aes_cbc_v2")
    ELSE Result(TRUE,
                luraphAESDecrypt(hexToBytes(encrypted), stringToBytes(key),
                                 IF HasIv(iv) THEN hexToBytes(iv.v)
                                 ELSE generateIV(key)),
                "aes_cbc_v2")

luraphCustomDecrypt(encrypted, key) ==
    IF key = Undefined THEN Result(FALSE, encrypted, "luraph_custom")
    ELSE LET keyBytes == stringToBytes(key)
             encryptedBytes == [i \in 1..Len(encrypted) |-> encrypted[i] % 256]
         IN  Result(TRUE,
                    customSubstitution(
                        reverseBitManipulation(xorBytes(encryptedBytes, keyBytes)),
                        keyBytes),
                    "luraph_custom")

\* The number of matches a global regular expression finds in code from
\* position p, for a pattern that is a sequence of character sets ({-1}
\* stands for '.', any character but a line terminator).
RECURSIVE CountPattern(_, _, _)
CountPattern(code, p, pat) ==
    LET Fits(c, set) == IF set = {-1} THEN c \notin {10, 13, 8232, 8233}
                        ELSE c \in set
    IN  IF p + Len(pat) > Len(code) THEN 0
        ELSE IF \A j \in 1..Len(pat) : Fits(code[p + j], pat[j])
        THEN 1 + CountPattern(code, p + Len(pat), pat)
        ELSE CountPattern(code, p + 1, pat)

\* The number of matches of /\bkeyword\b/g
CountWord(code, keyword) ==
    Cardinality({i \in 0..(Len(code) - Len(keyword)) :
        /\ MatchAt(code, i, keyword)
        /\ i = 0 \/ ~IsWordCode(code[i])
        /\ i + Len(keyword) = Len(code) \/ ~IsWordCode(code[i + Len(keyword) + 1])})

LuaKeywords ==
    <<S("local"), S("function"), S("end"), S("if"), S("then"), S("else"),
      S("for"), S("while"), S("do"), S("return")>>

\* new RegExp('\\' + op, 'g') for each operator: the backslash escapes the
\* first character, so '..' is a dot and any character, 'and' and 'or' are
\* literal, and 'not' is a newline followed by "ot".
LuaOperatorPatterns ==
    << <<{61}>>, <<{61}, {61}>>, <<{126}, {61}>>, <<{60}, {61}>>,
       <<{62}, {61}>>, <<{60}>>, <<{62}>>, <<{43}>>, <<{45}>>, <<{42}>>,
       <<{47}>>, <<{37}>>, <<{94}>>, <<{46}, {-1}>>,
       <<{97}, {110}, {100}>>, <<{111}, {114}>>, <<{10}, {111}, {116}>> >>

RECURSIVE SumSeq(_)
SumSeq(q) == IF q = <<>> THEN 0 ELSE Head(q) + SumSeq(Tail(q))

scoreLuaCode(code) ==
    LET nonPrintable == Cardinality({i \in 1..Len(code) :
            code[i] \in (0..8) \cup {11, 12} \cup (14..31) \cup {127}})
    IN  SumSeq([k \in 1..Len(LuaKeywords) |-> 10 * CountWord(code, LuaKeywords[k])])
        + SumSeq([k \in 1..Len(LuaOperatorPatterns) |->
                     2 * CountPattern(code, 0, LuaOperatorPatterns[k])])
        + (IF Includes(code, S("function")) /\ Includes(code, S("end")) THEN 20 ELSE 0)
        + (IF Includes(code, S("local")) THEN 15 ELSE 0)
        + (IF Includes(code, S("print")) THEN 10 ELSE 0)
        - 5 * nonPrintable

\* The first result whose score no earlier result reaches; null (Undefined)
\* for an empty list.
selectBestResult(results) ==
    IF results = <<>> THEN Undefined
    ELSE LET best == CHOOSE i \in 1..Len(results) :
                 /\ \A j \in 1..Len(results) :
                       scoreLuaCode(results[j].decrypted)
                           <= scoreLuaCode(results[i].decrypted)
                 /\ \A j \in 1..(i - 1) :
                       scoreLuaCode(results[j].decrypted)
                           < scoreLuaCode(results[i].decrypted)
         IN  results[best]

AutoMethods == <<"xor_v1", "xor_v2", "aes_cbc", "luraph_custom">>

RECURSIVE decryptString(_, _)

autoDetectAndDecrypt(encrypted, key) ==
    LET all == [i \in 1..Len(AutoMethods) |->
                   decryptString(encrypted, [method |-> AutoMethods[i],
                                             key |-> key, iv |-> Undefined])]
        results == SelectSeq(all, LAMBDA r : r.success)
        bestResult == selectBestResult(results)
    IN  IF bestResult = Undefined THEN Result(FALSE, encrypted, "auto")
        ELSE bestResult

decryptStringNoCatch(encrypted, encryptionInfo) ==
    CASE encryptionInfo.method = "xor_v1" ->
            xorDecryptV1(encrypted, encryptionInfo.key)
      [] encryptionInfo.method = "xor_v2" ->
            xorDecryptV2(encrypted, encryptionInfo.key)
      [] encryptionInfo.method = "aes_cbc" ->
            aesDecrypt(encrypted, encryptionInfo.key, encryptionInfo.iv)
      [] encryptionInfo.method = "aes_cbc_v2" ->
            aesDecryptV2(encrypted, encryptionInfo.key, encryptionInfo.iv)
      [] encryptionInfo.method = "luraph_custom" ->
            luraphCustomDecrypt(encrypted, encryptionInfo.key)
      [] OTHER -> autoDetectAndDecrypt(encrypted, encryptionInfo.key)

\* decryptString without its try/catch
decryptStringUncaught(encrypted, encryptionInfo) ==
    decryptStringNoCatch(encrypted, encryptionInfo)

decryptString(encrypted, encryptionInfo) ==
    LET r == decryptStringNoCatch(encrypted, encryptionInfo)
    IN  IF r.threw THEN Result(FALSE, encrypted, encryptionInfo.method) ELSE r

-----------------------------------------------------------------------------
(* LuacGenerator *)

\* A 32-bit word is the pair <<high 16 bits, low 16 bits>>.
Word(v) == <<(v \div 65536) % 65536, v % 65536>>

RECURSIVE Pow2(_)
Pow2(n) == IF n = 0 THEN 1 ELSE 2 * Pow2(n - 1)

\* (v << n) as a 32-bit pattern, for 0 <= v and 0 <= n < 32
Shl32(v, n) ==
    IF n >= 16 THEN <<(v % Pow2(32 - n)) * Pow2(n - 16), 0>>
    ELSE <<(v \div Pow2(16 - n)) % 65536, (v % Pow2(16 - n)) * Pow2(n)>>

Or32(x, y) == <<BitOr(x[1], y[1]), BitOr(x[2], y[2])>>

\* setUint32(offset, w, true): the four bytes, least significant first
WordBytes(w) == <<w[2] % 256, w[2] \div 256, w[1] % 256, w[1] \div 256>>
Uint32LE(v) == WordBytes(Word(v))

\* setBigInt64(offset, BigInt(v), true) for an integer of 32-bit magnitude
BigInt64LE(v) ==
    Uint32LE(v) \o (IF v < 0 THEN <<255, 255, 255, 255>> ELSE <<0, 0, 0, 0>>)

\* setFloat64(offset, x, true) for the numbers the model writes:
\* 370.5 = 0x4077280000000000, 1.5 = 0x3FF8000000000000,
\* 0.5 = 0x3FE0000000000000.
Float64LE(x) ==
    CASE x = Num(3705, -1) -> <<0, 0, 0, 0, 0, 40, 119, 64>>
      [] x = Num(15, -1) -> <<0, 0, 0, 0, 0, 0, 248, 63>>
      [] x = Num(5, -1) -> <<0, 0, 0, 0, 0, 0, 224, 63>>

LUA_SIGNATURE == <<6988, 30049>>
LUAC_VERSION == 83
LUAC_FORMAT == 0
LUAC_DATA == <<25, 147, 13, 10, 26, 10>>
BufferSize == 1024 * 64

writeHeader ==
    WordBytes(LUA_SIGNATURE) \o <<LUAC_VERSION, LUAC_FORMAT>> \o LUAC_DATA
    \o <<4, 8, 4, 8, 8>> \o BigInt64LE(22136) \o Float64LE(Num(3705, -1))

\* new TextEncoder().encode(str) for codes below 2048
Utf8(str) ==
    LET RECURSIVE Enc(_)
        Enc(i) == IF i > Len(str) THEN <<>>
                  ELSE (IF str[i] < 128 THEN <<str[i]>>
                        ELSE <<192 + (str[i] \div 64), 128 + (str[i] % 64)>>)
                       \o Enc(i + 1)
    IN  Enc(1)

\* writeString of a JavaScript value: a falsy one (undefined, "") is one zero
\* byte; otherwise the size byte, the bytes and a null terminator.
writeString(str) ==
    IF str = Undefined \/ str.v = <<>> THEN <<0>>
    ELSE <<(Len(Utf8(str.v)) + 1) % 256>> \o Utf8(str.v) \o <<0>>

writeConstant(constant) ==
    CASE constant.type = "nil" -> <<0>>
      [] constant.type = "boolean" -> <<1, IF constant.value.v THEN 1 ELSE 0>>
      [] constant.type = "number" ->
            IF constant.value.e = 0
            THEN <<3>> \o BigInt64LE(constant.value.m)
            ELSE <<19>> \o Float64LE(constant.value)
      [] constant.type = "string" -> <<4>> \o writeString(constant.value)
      [] OTHER -> <<0>>

\* The 32-bit pattern of the encoded instruction (setUint32 stores the
\* number modulo 2^32).  x & mask is x modulo mask + 1.
encodeInstruction(instruction) ==
    LET base == Or32(Word(instruction.opcode % 64), Shl32(instruction.a % 256, 6))
    IN  IF instruction.bx # Undefined
        THEN Or32(base, Shl32(instruction.bx.m % 262144, 14))
        ELSE IF instruction.sbx # Undefined
        THEN Or32(base, Shl32((instruction.sbx.m + 131071) % 262144, 14))
        ELSE IF instruction.ax # Undefined
        THEN Or32(base, Shl32(instruction.ax.m % 67108864, 6))
        ELSE Or32(Or32(base, Shl32(instruction.b % 512, 23)),
                  Shl32(instruction.c % 512, 14))

RECURSIVE Flatten(_)
Flatten(seqs) == IF seqs = <<>> THEN <<>> ELSE Head(seqs) \o Flatten(Tail(seqs))

writeDebugInfo(proto) ==
    Uint32LE(Len(proto.instructions))
    \o Flatten([i \in 1..Len(proto.instructions) |->
                   Uint32LE(proto.instructions[i].line)])
    \o Uint32LE(0)
    \o Uint32LE(Len(proto.upvalues))
    \o Flatten([i \in 1..Len(proto.upvalues) |->
                   writeString(Str(proto.upvalues[i].name))])

RECURSIVE writeFunction(_)
writeFunction(proto) ==
    writeString(IF proto.source # <<>> THEN Str(proto.source)
                ELSE Str(S("@deobfuscated.lua")))
    \o Uint32LE(proto.lineDefined) \o Uint32LE(proto.lastLineDefined)
    \o <<proto.numParams % 256, IF proto.isVararg THEN 1 ELSE 0,
         Max({proto.maxStackSize, 2}) % 256>>
    \o Uint32LE(Len(proto.instructions))
    \o Flatten([i \in 1..Len(proto.instructions) |->
                   WordBytes(encodeInstruction(proto.instructions[i]))])
    \o Uint32LE(Len(proto.constants))
    \o Flatten([i \in 1..Len(proto.constants) |-> writeConstant(proto.constants[i])])
    \o Uint32LE(Len(proto.upvalues))
    \o Flatten([i \in 1..Len(proto.upvalues) |->
                   <<IF proto.upvalues[i].isLocal THEN 1 ELSE 0,
                     proto.upvalues[i].register % 256>>])
    \o Uint32LE(Len(proto.protos))
    \o Flatten([i \in 1..Len(proto.protos) |-> writeFunction(proto.protos[i])])
    \o writeDebugInfo(proto)

\* The offset writeFunction returns minus the one it was given: the number
\* of bytes it writes (every instruction takes 4 bytes in the code list and
\* 4 in the line info).
RECURSIVE functionSize(_)
functionSize(proto) ==
    Len(writeString(IF proto.source # <<>> THEN Str(proto.source)
                    ELSE Str(S("@deobfuscated.lua"))))
    + 11 + 4 + 4 * Len(proto.instructions)
    + 4 + SumSeq([i \in 1..Len(proto.constants) |->
                     Len(writeConstant(proto.constants[i]))])
    + 4 + 2 * Len(proto.upvalues)
    + 4 + SumSeq([i \in 1..Len(proto.protos) |-> functionSize(proto.protos[i])])
    + 4 + 4 * Len(proto.instructions) + 4
    + 4 + SumSeq([i \in 1..Len(proto.upvalues) |->
                     Len(writeString(Str(proto.upvalues[i].name)))])

\* generateLuac writes into a DataView over new ArrayBuffer(1024 * 64); a
\* write that ends past the buffer throws a RangeError, which nothing
\* catches.  Otherwise the used prefix of the buffer is returned.
generateLuac(proto) ==
    IF Len(writeHeader) + functionSize(proto) > BufferSize
    THEN [threw |-> TRUE, bytes |-> <<>>]
    ELSE [threw |-> FALSE, bytes |-> writeHeader \o writeFunction(proto)]

\* getUint32(0) or getUint8(4) past the end throws, and the catch returns
\* false.
validateLuac(bytecode) ==
    /\ Len(bytecode) >= 5
    /\ SubSeq(bytecode, 1, 4) = WordBytes(LUA_SIGNATURE)
    /\ bytecode[5] = LUAC_VERSION

-----------------------------------------------------------------------------
(* VMInstructions *)

LuaOpcode ==
    [MOVE |-> 0, LOADK |-> 1, LOADBOOL |-> 3, LOADNIL |-> 4, GETTABLE |-> 7,
     SETTABLE |-> 10, NEWTABLE |-> 11, ADD |-> 13, SUB |-> 14, MUL |-> 15,
     MOD |-> 16, POW |-> 17, DIV |-> 18, BAND |-> 20, BOR |-> 21, BXOR |-> 22,
     SHL |-> 23, SHR |-> 24, CONCAT |-> 29, JMP |-> 30, CALL |-> 36,
     RETURN |-> 38, EXTRAARG |-> 46]

\* A VMInstruction in ABC form (bx, sbx and ax undefined)
Instruction(opcode, a, b, c, line) ==
    [opcode |-> opcode, a |-> a, b |-> b, c |-> c, bx |-> Undefined,
     sbx |-> Undefined, ax |-> Undefined, line |-> line]

-----------------------------------------------------------------------------
(* SymbolicExecutor *)

maxExecutionSteps == 1000

\* node.left.type and node.left.name are undefined on an object without them.
isRegisterAccess(node) ==
    /\ node.type = "BinaryExpression"
    /\ node.operator = S("[]")
    /\ "type" \in DOMAIN node.left /\ node.left.type = "Identifier"
    /\ node.left.name = S("R")

isConstantAccess(node) ==
    /\ node.type = "BinaryExpression"
    /\ node.operator = S("[]")
    /\ "type" \in DOMAIN node.left /\ node.left.type = "Identifier"
    /\ node.left.name = S("K")

\* extractRegisterIndex and extractConstantIndex: the literal's number, -1
\* otherwise.  An integer m * 10^0 is the integer m.
extractRegisterIndex(node) ==
    IF /\ node.type = "BinaryExpression"
       /\ "type" \in DOMAIN node.right /\ node.right.type = "Literal"
       /\ node.right.value.k = "number"
    THEN (IF node.right.value.e = 0 THEN node.right.value.m ELSE node.right.value)
    ELSE -1

mapOperatorToOpcode(operator) ==
    CASE operator = S("+") -> LuaOpcode.ADD
      [] operator = S("-") -> LuaOpcode.SUB
      [] operator = S("*") -> LuaOpcode.MUL
      [] operator = S("/") -> LuaOpcode.DIV
      [] operator = S("%") -> LuaOpcode.MOD
      [] operator = S("^") -> LuaOpcode.POW
      [] operator = S("..") -> LuaOpcode.CONCAT
      [] operator = S("&") -> LuaOpcode.BAND
      [] operator = S("|") -> LuaOpcode.BOR
      [] operator = S("~") -> LuaOpcode.BXOR
      [] operator = S("<<") -> LuaOpcode.SHL
      [] operator = S(">>") -> LuaOpcode.SHR
      [] OTHER -> -1

ExecutionResult(opcode, operands) ==
    [opcode |-> opcode, operands |-> operands, isComplete |-> TRUE]

executeAssignment(assignment) ==
    LET left == assignment.left[1]
        right == assignment.right[1]
    IN  IF assignment.left = <<>> \/ assignment.right = <<>> THEN Null
        ELSE IF /\ isRegisterAccess(left) /\ isRegisterAccess(right)
                /\ extractRegisterIndex(left) # -1
                /\ extractRegisterIndex(right) # -1
        THEN ExecutionResult(LuaOpcode.MOVE,
                 <<extractRegisterIndex(left), extractRegisterIndex(right), 0>>)
        ELSE IF /\ isRegisterAccess(left) /\ isConstantAccess(right)
                /\ extractRegisterIndex(left) # -1
                /\ extractRegisterIndex(right) # -1
        THEN ExecutionResult(LuaOpcode.LOADK,
                 <<extractRegisterIndex(left), extractRegisterIndex(right), 0>>)
        ELSE IF /\ isRegisterAccess(left) /\ right.type = "BinaryExpression"
                /\ extractRegisterIndex(left) # -1
                /\ extractRegisterIndex(right.left) # -1
                /\ extractRegisterIndex(right.right) # -1
                /\ mapOperatorToOpcode(right.operator) # -1
        THEN ExecutionResult(mapOperatorToOpcode(right.operator),
                 <<extractRegisterIndex(left), extractRegisterIndex(right.left),
                   extractRegisterIndex(right.right)>>)
        ELSE Null

executeCall(call) ==
    IF isRegisterAccess(call.callee)
    THEN ExecutionResult(LuaOpcode.CALL,
             <<extractRegisterIndex(call.callee), Len(call.arguments) + 1, 2>>)
    ELSE Null

executeStatement(node) ==
    CASE node.type = "AssignmentExpression" -> executeAssignment(node)
      [] node.type = "CallExpression" -> executeCall(node)
      [] node.type = "ReturnStatement" -> ExecutionResult(LuaOpcode.RETURN, <<0, 1, 0>>)
      [] OTHER -> Null

\* The loop stops at the statement that finds executionSteps (before its
\* increment) above maxExecutionSteps; the last complete result wins.
executeBlock(block) ==
    LET n == Min({Len(block.statements), maxExecutionSteps + 1})
        complete == {i \in 1..n : executeStatement(block.statements[i]) # Null}
    IN  IF complete = {}
        THEN [opcode |-> LuaOpcode.MOVE, operands |-> <<0, 0, 0>>,
              isComplete |-> FALSE]
        ELSE executeStatement(block.statements[Max(complete)])

executeVMHandler(handler, vmContext) == executeBlock(handler.body)

\* analyzeNode: the patterns a node contributes
RECURSIVE analyzeNode(_)
analyzeNode(node) ==
    CASE node.type = "AssignmentExpression" ->
            IF isRegisterAccess(node.left[1]) THEN <<S("register_assignment")>> ELSE <<>>
      [] node.type = "CallExpression" ->
            IF isRegisterAccess(node.callee) THEN <<S("register_call")>> ELSE <<>>
      [] node.type = "BinaryExpression" -> <<S("binary_") \o node.operator>>
      [] node.type = "BlockStatement" ->
            Flatten([i \in 1..Len(node.statements) |-> analyzeNode(node.statements[i])])
      [] OTHER -> <<>>

determineOpcodeFromPatterns(patterns) ==
    LET Has(x) == \E i \in 1..Len(patterns) : patterns[i] = x
    IN  IF Has(S("register_assignment")) /\ Has(S("binary_+")) THEN LuaOpcode.ADD
        ELSE IF Has(S("register_assignment")) /\ Has(S("binary_-")) THEN LuaOpcode.SUB
        ELSE IF Has(S("register_call")) THEN LuaOpcode.CALL
        ELSE LuaOpcode.MOVE

\* analyzeHandlerPattern reads handler.body.type: on an object without a body
\* that is a TypeError.
analyzeHandlerPattern(handler) ==
    IF "body" \notin DOMAIN handler THEN [threw |-> TRUE, likelyOpcode |-> 0]
    ELSE [threw |-> FALSE,
          likelyOpcode |-> determineOpcodeFromPatterns(analyzeNode(handler.body))]

-----------------------------------------------------------------------------
(* LuraphVM *)

\* A Map in insertion order: a sequence of [key, value]; set replaces the
\* value of a key in place or appends a new key.
MapHas(map, key) == \E i \in 1..Len(map) : map[i].key = key
MapGet(map, key) == map[CHOOSE i \in 1..Len(map) : map[i].key = key].value
MapSet(map, key, value) ==
    IF MapHas(map, key)
    THEN [i \in 1..Len(map) |->
             IF map[i].key = key THEN [key |-> key, value |-> value] ELSE map[i]]
    ELSE Append(map, [key |-> key, value |-> value])

\* The nodes a traversal visits: the node, and the statements of a
\* BlockStatement.  No parser node carries a children array.
RECURSIVE Visit(_)
Visit(node) ==
    <<node>> \o (IF node.type = "BlockStatement"
                 THEN Flatten([i \in 1..Len(node.statements) |->
                                  Visit(node.statements[i])])
                 ELSE <<>>)

analyzeHandlerBody(func) ==
    LET statements == func.body.statements
        Hit(stmt) ==
            IF stmt.type = "AssignmentExpression"
               /\ stmt.left # <<>> /\ stmt.right # <<>>
            THEN IF isRegisterAccess(stmt.left[1]) /\ isRegisterAccess(stmt.right[1])
                 THEN LuaOpcode.MOVE
                 ELSE IF isRegisterAccess(stmt.left[1]) /\ isConstantAccess(stmt.right[1])
                 THEN LuaOpcode.LOADK
                 ELSE IF stmt.right[1].type = "BinaryExpression"
                         /\ stmt.right[1].operator = S("+")
                 THEN LuaOpcode.ADD
                 ELSE -1
            ELSE -1
        hits == {i \in 1..Len(statements) : Hit(statements[i]) # -1}
    IN  IF hits = {} THEN 0 ELSE Hit(statements[Min(hits)])

guessOpcodeFromHandler(func) ==
    LET name == ToLower(func.name.name)
        Has(t) == Includes(name, S(t))
    IN  IF Has("move") \/ Has("copy") THEN LuaOpcode.MOVE
        ELSE IF Has("load") /\ Has("const") THEN LuaOpcode.LOADK
        ELSE IF Has("load") /\ Has("bool") THEN LuaOpcode.LOADBOOL
        ELSE IF Has("load") /\ Has("nil") THEN LuaOpcode.LOADNIL
        ELSE IF Has("call") THEN LuaOpcode.CALL
        ELSE IF Has("return") THEN LuaOpcode.RETURN
        ELSE IF Has("jump") \/ Has("jmp") THEN LuaOpcode.JMP
        ELSE IF Has("add") THEN LuaOpcode.ADD
        ELSE IF Has("sub") THEN LuaOpcode.SUB
        ELSE IF Has("mul") THEN LuaOpcode.MUL
        ELSE IF Has("div") THEN LuaOpcode.DIV
        ELSE IF Has("mod") THEN LuaOpcode.MOD
        ELSE IF Has("pow") THEN LuaOpcode.POW
        ELSE IF Has("concat") THEN LuaOpcode.CONCAT
        ELSE IF Has("table") THEN LuaOpcode.NEWTABLE
        ELSE IF Has("get") /\ Has("table") THEN LuaOpcode.GETTABLE
        ELSE IF Has("set") /\ Has("table") THEN LuaOpcode.SETTABLE
        ELSE analyzeHandlerBody(func)

extractHandlerCode(func) ==
    S("function ") \o func.name.name \o S("(...) /* handler code */ end")

RECURSIVE containsEncryptedContent(_)
containsEncryptedContent(node) ==
    \/ node.type = "EncryptedString"
    \/ node.type = "Identifier" /\ node.isObfuscated
    \/ /\ node.type = "BlockStatement"
       /\ \E i \in 1..Len(node.statements) :
             containsEncryptedContent(node.statements[i])

isEncryptionKey(value) ==
    LET Base64Like(c) == IsAlnumCode(c) \/ c \in {43, 47, 61}
    IN  \/ Len(value) >= 16 /\ \A i \in 1..Len(value) : Base64Like(value[i])
        \/ Len(value) >= 32 /\ \A i \in 1..Len(value) : IsHexCode(value[i])

\* The handlers extractVMHandlers registers, in the order it meets them
extractVMHandlers(node) ==
    LET funcs == SelectSeq(Visit(node), LAMBDA n :
                     /\ n.type = "FunctionDeclaration"
                     /\ n.isVMHandler /\ n.handlerIndex # Undefined)
    IN  [i \in 1..Len(funcs) |->
            [index |-> funcs[i].handlerIndex.m,
             opcode |-> guessOpcodeFromHandler(funcs[i]),
             handler |-> extractHandlerCode(funcs[i]),
             encrypted |-> containsEncryptedContent(funcs[i].body),
             decrypted |-> Undefined]]

RECURSIVE SetAll(_, _)
SetAll(map, found) ==
    IF found = <<>> THEN map
    ELSE SetAll(MapSet(map, Head(found).index, Head(found)), Tail(found))

\* findEncryptionInfo: the key and method after the traversal, from the key
\* and method before it.  Every match overwrites the one before.
findEncryptionInfo(node, key, method) ==
    LET nodes == Visit(node)
        keys == {i \in 1..Len(nodes) :
                    /\ nodes[i].type = "AssignmentExpression"
                    /\ nodes[i].right # <<>>
                    /\ nodes[i].right[1].type = "Literal"
                    /\ nodes[i].right[1].value.k = "string"
                    /\ isEncryptionKey(nodes[i].right[1].value.v)}
        encs == {i \in 1..Len(nodes) : nodes[i].type = "EncryptedString"}
    IN  [key |-> IF keys = {} THEN key ELSE nodes[Max(keys)].right[1].value.v,
         method |-> IF encs = {} THEN method
                    ELSE nodes[Max(encs)].encryptionMethod]

\* The VMConstant extractConstants pushes for one field of a constant table
constantOfField(field, index, encryptionInfo) ==
    LET Kept(decryptionResult) ==
            [type |-> "string",
             value |-> Str(IF decryptionResult.success
                           THEN decryptionResult.decrypted
                           ELSE field.value.encryptedValue),
             index |-> index]
    IN  IF field.value.type = "Literal"
        THEN [type |-> IF field.value.dataType \in {"nil", "boolean", "number", "string"}
                       THEN field.value.dataType ELSE "nil",
              value |-> field.value.value, index |-> index]
        ELSE Kept(decryptString(field.value.encryptedValue, encryptionInfo))

extractConstants(node, encryptionInfo) ==
    LET tables == SelectSeq(Visit(node), LAMBDA n :
                      n.type = "TableConstructor" /\ n.isConstantTable)
    IN  Flatten([t \in 1..Len(tables) |->
                    [i \in 1..Len(tables[t].fields) |->
                        constantOfField(tables[t].fields[i], i - 1, encryptionInfo)]])

\* mapVMOperations on the first handler of the map: it is decrypted when
\* encrypted, then analyzeHandlerPattern is called on the handler object.
mapVMOperations(map, encryptionInfo) ==
    LET Analyzed(first) ==
            [threw |-> analyzeHandlerPattern(first).threw,
             handlers |-> MapSet(map, first.index, first)]
        Decrypted(handler, decryptionResult) ==
            IF decryptionResult.success
            THEN [handler EXCEPT !.decrypted = Str(decryptionResult.decrypted)]
            ELSE handler
        First(handler) ==
            Analyzed(IF handler.encrypted
                     THEN Decrypted(handler,
                                    decryptString(handler.handler, encryptionInfo))
                     ELSE handler)
    IN  IF map = <<>> THEN [threw |-> FALSE, handlers |-> map]
        ELSE First(map[1].value)

-----------------------------------------------------------------------------
(* BytecodeReconstructor *)

\* X\[(\d+)\] at position p of s: whether it matches, the parseInt of its
\* groups and the position after it.
NoMatch == [ok |-> FALSE, groups |-> <<>>, next |-> 0]

RegAccessAt(s, p, letter) ==
    LET Digits(q) ==
            IF q > p + 2 /\ q < Len(s) /\ s[q + 1] = 93
            THEN [ok |-> TRUE, groups |-> <<DigitsValue(Substring(s, p + 2, q))>>,
                  next |-> q + 1]
            ELSE NoMatch
    IN  IF ~MatchAt(s, p, <<letter, 91>>) THEN NoMatch
        ELSE Digits(ScanWhile(s, p + 2, IsDigitCode))

\* \s*c\s* at position p: the position after it, or -1
Spaced(s, p, c) ==
    LET After(q) ==
            IF q < Len(s) /\ s[q + 1] = c THEN ScanWhile(s, q + 1, isWhitespace)
            ELSE -1
    IN  After(ScanWhile(s, p, isWhitespace))

\* The match m followed by \s*c\s*X\[(\d+)\]
ThenAccess(s, m, c, letter) ==
    LET Joined(r) == IF r.ok THEN [r EXCEPT !.groups = m.groups \o r.groups]
                     ELSE NoMatch
        From(q) == IF q = -1 THEN NoMatch ELSE Joined(RegAccessAt(s, q, letter))
    IN  IF ~m.ok THEN NoMatch ELSE From(Spaced(s, m.next, c))

\* R\[(\d+)\]\s*=\s*X\[(\d+)\] at position p
AssignAt(s, p, letter) == ThenAccess(s, RegAccessAt(s, p, 82), 61, letter)

\* R\[(\d+)\]\s*=\s*R\[(\d+)\]\s*op\s*R\[(\d+)\] at position p
ArithAt(s, p, op) == ThenAccess(s, AssignAt(s, p, 82), op, 82)

\* R\[(\d+)\]\( at position p
CallAt(s, p) ==
    LET Paren(l) == IF l.ok /\ l.next < Len(s) /\ s[l.next + 1] = 40
                    THEN [l EXCEPT !.next = l.next + 1]
                    ELSE NoMatch
    IN  Paren(RegAccessAt(s, p, 82))

ReturnAt(s, p) ==
    [ok |-> MatchAt(s, p, S("return")), groups |-> <<>>, next |-> p + 6]

\* handlerCode.match(regex) for the six patterns, in the order of the
\* pattern tables: the leftmost match of the pattern, or no match.
PatternTypes == <<"MOVE", "LOADK", "ADD", "SUB", "CALL", "RETURN">>
PatternAt(type, s, p) ==
    CASE type = "MOVE" -> AssignAt(s, p, 82)
      [] type = "LOADK" -> AssignAt(s, p, 75)
      [] type = "ADD" -> ArithAt(s, p, 43)
      [] type = "SUB" -> ArithAt(s, p, 45)
      [] type = "CALL" -> CallAt(s, p)
      [] type = "RETURN" -> ReturnAt(s, p)
PatternMatch(type, s) ==
    LET Leftmost(at) == IF at = {} THEN NoMatch ELSE PatternAt(type, s, Min(at))
    IN  Leftmost({p \in 0..(Len(s) - 1) : PatternAt(type, s, p).ok})

\* The first pattern of the table that matches, with its match; 0 when none
FirstPattern(s) ==
    LET First(ms, hit) == IF hit = {} THEN [i |-> 0, groups |-> <<>>]
                          ELSE [i |-> Min(hit), groups |-> ms[Min(hit)].groups]
        Among(ms) == First(ms, {i \in 1..Len(ms) : ms[i].ok})
    IN  Among([i \in 1..Len(PatternTypes) |-> PatternMatch(PatternTypes[i], s)])

\* parseInt of a group that the match may not have: NaN when it is absent
GroupValue(groups, i) ==
    IF i <= Len(groups) THEN Num(groups[i], 0) ELSE [k |-> "number", nan |-> TRUE]

\* The statements of the mock function: one assignment whose inner nodes
\* carry no type, built from the first pattern that matches.
parseHandlerCode(handlerCode) ==
    LET Access(value) == [type |-> "BinaryExpression", operator |-> S("[]"),
                          left |-> [name |-> S("R")], right |-> [value |-> value]]
        Statements(match) ==
            IF match.i = 0 THEN <<>>
            ELSE <<[type |-> "AssignmentExpression",
                    left |-> <<Access(GroupValue(match.groups, 1))>>,
                    right |-> <<Access(GroupValue(match.groups, 2))>>]>>
    IN  Statements(FirstPattern(handlerCode))

createMockFunctionFromHandler(handler, handlerCode) ==
    [type |-> "FunctionDeclaration",
     name |-> [name |-> <<S("handler_"), handler.index>>],
     parameters |-> <<>>,
     body |-> [type |-> "BlockStatement",
               statements |-> parseHandlerCode(handlerCode)]]

\* The instruction of the first pattern that matches, MOVE 0 0 0 when none
PatternInstruction(i, g, line) ==
    CASE i = 0 -> Instruction(LuaOpcode.MOVE, 0, 0, 0, line)
      [] i = 1 -> Instruction(LuaOpcode.MOVE, g[1], g[2], 0, line)
      [] i = 2 -> Instruction(LuaOpcode.LOADK, g[1], g[2], 0, line)
      [] i = 3 -> Instruction(LuaOpcode.ADD, g[1], g[2], g[3], line)
      [] i = 4 -> Instruction(LuaOpcode.SUB, g[1], g[2], g[3], line)
      [] i = 5 -> Instruction(LuaOpcode.CALL, g[1], 1, 1, line)
      [] i = 6 -> Instruction(LuaOpcode.RETURN, 0, 1, 0, line)

reconstructFromPatterns(handler, handlerCode) ==
    LET Of(match) == PatternInstruction(match.i, match.groups, handler.index)
    IN  Of(FirstPattern(handlerCode))

\* The text reconstructHandler works on: the stored decryption, a fresh
\* decryption that succeeded, or the handler text itself.
HandlerCode(handler, context) ==
    LET Text(decryptionResult) ==
            IF decryptionResult.success THEN decryptionResult.decrypted
            ELSE handler.handler
    IN  IF ~handler.encrypted THEN handler.handler
        ELSE IF handler.decrypted # Undefined /\ handler.decrypted.v # <<>>
        THEN handler.decrypted.v
        ELSE Text(decryptString(handler.handler, context.encryptionInfo))

reconstructHandler(handler, context) ==
    LET Choose(handlerCode, executionResult) ==
            IF executionResult.isComplete
            THEN Instruction(executionResult.opcode, executionResult.operands[1],
                             executionResult.operands[2],
                             executionResult.operands[3], handler.index)
            ELSE reconstructFromPatterns(handler, handlerCode)
        With(handlerCode) ==
            Choose(handlerCode,
                   executeVMHandler(createMockFunctionFromHandler(handler, handlerCode),
                                    context))
    IN  With(HandlerCode(handler, context))

\* A string constant is replaced by its decryption when that succeeds and
\* kept as it is otherwise.
decryptConstant(constant, i, encryptionInfo) ==
    LET Replaced(decryptionResult) ==
            IF decryptionResult.success
            THEN [constant EXCEPT !.value = Str(decryptionResult.decrypted),
                                  !.index = i]
            ELSE constant
    IN  IF constant.type = "string" /\ constant.value.k = "string"
        THEN Replaced(decryptString(constant.value.v, encryptionInfo))
        ELSE constant

decryptConstants(cs, encryptionInfo) ==
    [i \in 1..Len(cs) |-> decryptConstant(cs[i], i - 1, encryptionInfo)]

calculateMaxStackSize(instructions) ==
    LET Need(ins) ==
            IF ins.opcode \in {LuaOpcode.LOADK, LuaOpcode.LOADBOOL, LuaOpcode.LOADNIL,
                               LuaOpcode.MOVE, LuaOpcode.NEWTABLE, LuaOpcode.ADD,
                               LuaOpcode.SUB, LuaOpcode.MUL, LuaOpcode.DIV,
                               LuaOpcode.MOD, LuaOpcode.POW}
            THEN ins.a + 1
            ELSE IF ins.opcode = LuaOpcode.CALL
            THEN Max({0} \cup (IF ins.b > 0 THEN {ins.a + ins.b} ELSE {})
                         \cup (IF ins.c > 0 THEN {ins.a + ins.c - 1} ELSE {}))
            ELSE 0
    IN  Max({2} \cup {Need(instructions[i]) : i \in 1..Len(instructions)})

isRedundantArithmetic(current, next) ==
    LET arithmeticOps == {LuaOpcode.ADD, LuaOpcode.SUB, LuaOpcode.MUL, LuaOpcode.DIV}
    IN  /\ current.opcode \in arithmeticOps /\ next.opcode \in arithmeticOps
        /\ current.a = next.a /\ current.b = next.b /\ current.c = next.c

removeRedundantInstructions(instructions) ==
    LET HasNext(i) == i < Len(instructions)
        Dropped(i) ==
            \/ instructions[i].opcode = LuaOpcode.MOVE
               /\ instructions[i].a = instructions[i].b
            \/ /\ instructions[i].opcode = LuaOpcode.LOADK /\ HasNext(i)
               /\ instructions[i + 1].opcode = LuaOpcode.LOADK
               /\ instructions[i + 1].a = instructions[i].a
            \/ HasNext(i) /\ isRedundantArithmetic(instructions[i], instructions[i + 1])
        kept == {i \in 1..Len(instructions) : ~Dropped(i)}
        Nth(n) == CHOOSE i \in kept : Cardinality({j \in kept : j < i}) = n - 1
    IN  [n \in 1..Cardinality(kept) |-> instructions[Nth(n)]]

\* The key `${type}:${JSON.stringify(value)}` is split at every ':' and only
\* its first two parts are read back, so a string value that holds a ':'
\* is cut short and JSON.parse throws a SyntaxError.
optimizeConstantLoading(proto) ==
    LET cs == proto.constants
        Key(c) == [type |-> c.type, value |-> c.value]
        first == {i \in 1..Len(cs) : \A j \in 1..(i - 1) : Key(cs[j]) # Key(cs[i])}
        FirstOf(i) == Min({k \in first : Key(cs[k]) = Key(cs[i])})
        NewIndex(i) == Cardinality({j \in first : j < FirstOf(i)})
        Nth(n) == CHOOSE i \in first : Cardinality({j \in first : j < i}) = n - 1
        Cut(c) == c.value.k = "string" /\ 58 \in {c.value.v[i] : i \in 1..Len(c.value.v)}
        Remap(bx) == IF bx.m + 1 \in 1..Len(cs) /\ NewIndex(bx.m + 1) # 0
                     THEN Num(NewIndex(bx.m + 1), 0) ELSE bx
    IN  [threw |-> \E i \in first : Cut(cs[i]),
         proto |-> [proto EXCEPT
            !.instructions =
                [i \in 1..Len(proto.instructions) |->
                    IF proto.instructions[i].opcode = LuaOpcode.LOADK
                       /\ proto.instructions[i].bx # Undefined
                    THEN [proto.instructions[i] EXCEPT !.bx = Remap(@)]
                    ELSE proto.instructions[i]],
            !.constants =
                [n \in 1..Cardinality(first) |->
                    [type |-> cs[Nth(n)].type, value |-> cs[Nth(n)].value,
                     index |-> n - 1]]]]

\* The instructions the worklist reaches from 0.  A jump to a negative pc
\* reads proto.instructions[pc].opcode of undefined: a TypeError.
RECURSIVE Reach(_, _, _)
Reach(instructions, worklist, reachable) ==
    IF worklist = <<>> THEN [threw |-> FALSE, reachable |-> reachable]
    ELSE LET pcTop == worklist[Len(worklist)]
             rest == SubSeq(worklist, 1, Len(worklist) - 1)
             instruction == instructions[pcTop + 1]
         IN  IF pcTop \in reachable \/ pcTop >= Len(instructions)
             THEN Reach(instructions, rest, reachable)
             ELSE IF pcTop < 0 THEN [threw |-> TRUE, reachable |-> reachable]
             ELSE Reach(instructions,
                        IF instruction.opcode = LuaOpcode.JMP
                        THEN (IF instruction.sbx # Undefined
                              THEN Append(rest, pcTop + 1 + instruction.sbx.m)
                              ELSE rest)
                        ELSE IF instruction.opcode = LuaOpcode.RETURN THEN rest
                        ELSE Append(rest, pcTop + 1),
                        reachable \cup {pcTop})

removeDeadCode(proto) ==
    LET r == Reach(proto.instructions, <<0>>, {})
        kept == {i \in 1..Len(proto.instructions) : i - 1 \in r.reachable}
        Nth(n) == CHOOSE i \in kept : Cardinality({j \in kept : j < i}) = n - 1
    IN  [threw |-> r.threw,
         proto |-> [proto EXCEPT !.instructions =
                       [n \in 1..Cardinality(kept) |-> proto.instructions[Nth(n)]]]]

optimizeRegisterUsage(proto) ==
    LET ins == proto.instructions
        registerUsage ==
            {ins[i].a : i \in 1..Len(ins)}
            \cup {ins[i].b : i \in {j \in 1..Len(ins) : ins[j].b < 256}}
            \cup {ins[i].c : i \in {j \in 1..Len(ins) : ins[j].c < 256}}
        maxUsedRegister == Max(registerUsage \cup {0})
    IN  [proto EXCEPT !.maxStackSize = Max({maxUsedRegister + 1, proto.maxStackSize})]

optimizeReconstructedBytecode(proto) ==
    LET Registers(p3) ==
            IF p3.threw THEN [threw |-> TRUE, proto |-> proto]
            ELSE [threw |-> FALSE, proto |-> optimizeRegisterUsage(p3.proto)]
        Dead(p2) == IF p2.threw THEN [threw |-> TRUE, proto |-> proto]
                    ELSE Registers(removeDeadCode(p2.proto))
    IN  Dead(optimizeConstantLoading(
                 [proto EXCEPT !.instructions = removeRedundantInstructions(@)]))

\* The entries of the handler map in their order of insertion
InsertionOrder(map) == [n \in 1..Len(map) |-> map[n].value]

\* The entries of the handler map sorted by index
SortedHandlers(map) ==
    [n \in 1..Len(map) |->
        map[CHOOSE i \in 1..Len(map) :
               Cardinality({j \in 1..Len(map) : map[j].key < map[i].key}) = n - 1].value]

EmptyProto(cs, maxStackSize) ==
    [instructions |-> <<>>, constants |-> cs, upvalues |-> <<>>, protos |-> <<>>,
     source |-> S("@deobfuscated.lua"), lineDefined |-> 0, lastLineDefined |-> 0,
     numParams |-> 0, isVararg |-> FALSE, maxStackSize |-> maxStackSize]

reconstructFromVM(context) ==
    LET Finish(optimized, statistics) ==
            IF optimized.threw
            THEN [success |-> FALSE, proto |-> EmptyProto(<<>>, 2),
                  statistics |-> [statistics EXCEPT !.errors = <<"error.message">>]]
            ELSE [success |-> TRUE, proto |-> optimized.proto,
                  statistics |-> statistics]
        Build(decryptedConstants, instructions) ==
            Finish(optimizeReconstructedBytecode(
                       [EmptyProto(decryptedConstants,
                                   calculateMaxStackSize(instructions))
                           EXCEPT !.instructions = instructions,
                                  !.lastLineDefined = Len(instructions)]),
                   [handlersProcessed |-> Len(instructions),
                    instructionsReconstructed |-> Len(instructions),
                    constantsDecrypted |-> Len(decryptedConstants),
                    errors |-> <<>>])
        Each(handlerArray) ==
            [i \in 1..Len(handlerArray) |-> reconstructHandler(handlerArray[i], context)]
    IN  Build(decryptConstants(context.constants, context.encryptionInfo),
              Each(SortedHandlers(context.handlers)))

\* LuraphVM.reconstructBytecode: the reconstructor's proto, or the VM's own
\* empty proto when reconstruction failed.
reconstructBytecode(hs, cs, encryptionInfo) ==
    LET Returned(result) ==
            [result EXCEPT !.proto = IF result.success THEN result.proto
                                     ELSE EmptyProto(cs, 0)]
    IN  Returned(reconstructFromVM([handlers |-> hs, constants |-> cs,
                                    encryptionInfo |-> encryptionInfo]))

\* LuraphVM.isValidLuraphScript: two of the three indicators, looked for on
\* the nodes a traversal visits.
isValidLuraphScript(node) ==
    LET nodes == Visit(node)
        Some(P(_)) == \E i \in 1..Len(nodes) : P(nodes[i])
        hasVMHandlers == Some(LAMBDA n : n.type = "FunctionDeclaration" /\ n.isVMHandler)
        hasEncryptedContent == Some(LAMBDA n : n.type = "EncryptedString")
        hasObfuscatedNames == Some(LAMBDA n : n.type = "Identifier" /\ n.isObfuscated)
    IN  Cardinality({i \in 1..3 :
            <<hasVMHandlers, hasEncryptedContent, hasObfuscatedNames>>[i]}) >= 2

\* astToString: the text of a Literal or an Identifier, '' for any other node
astToString(node) ==
    IF node.type = "Identifier" THEN node.name
    ELSE IF node.type = "Literal" /\ node.value.k = "string" THEN node.value.v
    ELSE <<>>

\* /X\[.*?\]/: the letter, '[', and a ']' later on the same line
BracketAccessIn(t, letter) ==
    \E p \in 0..(Len(t) - 1) :
        /\ MatchAt(t, p, <<letter, 91>>)
        /\ \E q \in (p + 3)..Len(t) :
              t[q] = 93 /\ \A j \in (p + 3)..(q - 1) : t[j] \notin {10, 13}

\* /word\s+[a-zA-Z_][a-zA-Z0-9_]{n,}/
LongNameAfter(t, word, n) ==
    \E p \in 0..(Len(t) - 1) :
        LET q == ScanWhile(t, p + Len(word), isWhitespace)
        IN  /\ MatchAt(t, p, word) /\ q > p + Len(word) /\ q < Len(t)
            /\ IsAlphaCode(t[q + 1]) \/ t[q + 1] = 95
            /\ ScanWhile(t, q + 1, IsWordCode) - (q + 1) >= n

\* prefix followed by one character of the class, case-insensitive prefix
PrefixThen(t, prefix, P(_)) ==
    \E p \in 0..(Len(t) - 1) :
        /\ MatchAt(ToLower(t), p, prefix) /\ p + Len(prefix) < Len(t)
        /\ P(t[p + Len(prefix) + 1])

\* How many of the thirteen luraphPatterns of the later revision match
luraphPatterns(t) ==
    <<Includes(ToLower(t), S("luraph")),
      Includes(ToLower(t), S("protected using luraph")),
      Includes(ToLower(t), S("lura.ph")),
      Includes(ToLower(t), S("obfuscator")),
      \E p \in 0..(Len(t) - 1) :
          MatchAt(t, p, S("0x")) /\ p + 2 < Len(t) /\ IsHexCode(t[p + 3]),
      LongNameAfter(t, S("local"), 20),
      LongNameAfter(t, S("function"), 15),
      BracketAccessIn(t, 82),
      BracketAccessIn(t, 75),
      PrefixThen(t, S("handler_"), IsDigitCode),
      PrefixThen(t, S("vm_"), IsWordCode),
      Includes(ToLower(t), S("encrypted")),
      Includes(ToLower(t), S("decrypt"))>>

\* The later revision of the gate: the patterns are tested on astToString of
\* the root, then the structure of the visited nodes is inspected.
isValidLuraphScriptLater(node) ==
    LET codeString == astToString(node)
        nodes == Visit(node)
        Some(P(_)) == \E i \in 1..Len(nodes) : P(nodes[i])
        patternMatches == Cardinality({i \in 1..Len(luraphPatterns(codeString)) :
                                          luraphPatterns(codeString)[i]})
        hasLuraphPatterns == patternMatches >= 2
        hasLongIdentifiers ==
            Some(LAMBDA n : n.type = "Identifier" /\ Len(n.name) > 15)
        hasComplexExpressions == Some(LAMBDA n : n.type = "BinaryExpression")
        hasObfuscatedStructure ==
            Some(LAMBDA n : n.type = "FunctionDeclaration" /\ Len(n.name.name) > 10)
    IN  \/ hasLuraphPatterns
        \/ hasObfuscatedStructure \/ hasComplexExpressions \/ hasLongIdentifiers

-----------------------------------------------------------------------------
(* The analysis pipeline on one LuraphVM instance *)

MaxRuns == 2

HandlerSource == S("local function handler_1(...) R[0] = R[1] end")
ConstantTableSource ==
    S("local K = {\"print\", 1, 2, 3, 4, 5}") \o <<10>>
    \o S("local function handler_1(...) R[0] = K[0] end")
KeySource == S("k = \"0123456789ABCDEF\"")
PlainSource == S("print(\"hello\")") \o <<10>>
NoticeSource == S("-- protected using Luraph")
BareTableSource ==
    S("{\"print\", 1, 2, 3, 4, 5}") \o <<10>> \o S("function() R[0] = K[0] end")
Sources ==
    {HandlerSource, ConstantTableSource, BareTableSource, KeySource, PlainSource,
     NoticeSource,
     S("\"\\x41\" lIlI"),
     S("function() vm_x(1) end"),
     S("function() vm_x(1) lIlI end"),
     S("{\"print\", 1, 2, 3, 4, 5}"),
     S("{\"a:b\", 1, 2, 3, 4, 5}"),
     S("{\"\\x41\", 1, 2, 3, 4, 5}"),
     S("x = a + b")}

EncryptionInfo(key, method) == [method |-> method, key |-> Str(key), iv |-> Undefined]

\* analyzeAST on an instance whose fields are vm: the fields after the call
\* and whether the call threw.
analyzeAST(node, vm) ==
    LET Values(map) == [i \in 1..Len(map) |-> map[i].value]
        Mapped(info, cs, mapped) ==
            [threw |-> mapped.threw,
             handlers |-> mapped.handlers,
             ctxHandlers |-> SetAll(vm.ctxHandlers, Values(mapped.handlers)),
             constants |-> cs,
             encryptionKey |-> info.key,
             encMethod |-> info.method,
             reconstructedProto |-> EmptyProto(cs, 0)]
        Found(found, info, encryptionInfo) ==
            Mapped(info, extractConstants(node, encryptionInfo),
                   mapVMOperations(SetAll(<<>>, found), encryptionInfo))
        WithInfo(found, info) ==
            Found(found, info, EncryptionInfo(info.key, info.method))
    IN  WithInfo(extractVMHandlers(node),
                 findEncryptionInfo(node, vm.encryptionKey, vm.encMethod))

\* The fields of a LuraphVM after its constructor
NewVM == [ctxHandlers |-> <<>>, encryptionKey |-> <<>>, encMethod |-> "auto"]

NoOutcome ==
    [success |-> FALSE, proto |-> EmptyProto(<<>>, 0),
     statistics |-> [handlersProcessed |-> 0, instructionsReconstructed |-> 0,
                     constantsDecrypted |-> 0, errors |-> <<>>]]

Tokenize(src) ==
    /\ pc \in {"idle", "done"} /\ runs < MaxRuns
    /\ source' = src
    /\ tokens' = tokenize(src)
    /\ ast' = NoNode
    /\ accepted' = [current |-> FALSE, later |-> FALSE]
    /\ outcome' = NoOutcome
    /\ pc' = "lexed"
    /\ UNCHANGED <<handlers, ctxHandlers, constants, encryptionKey, encMethod,
                   reconstructedProto, runs>>
    /\ UNCHANGED <<decryptVars, emitVars, reconstructVars, frontVars, driverVars, analyzeVars>>

Parse ==
    /\ pc = "lexed"
    /\ ast' = parse(tokens)
    /\ pc' = "parsed"
    /\ UNCHANGED <<source, tokens, accepted, handlers, ctxHandlers, constants,
                   encryptionKey, encMethod, reconstructedProto, outcome, runs>>
    /\ UNCHANGED <<decryptVars, emitVars, reconstructVars, frontVars, driverVars, analyzeVars>>

IsValidLuraphScript ==
    /\ pc = "parsed"
    /\ accepted' = [current |-> isValidLuraphScript(ast),
                    later |-> isValidLuraphScriptLater(ast)]
    /\ pc' = "gated"
    /\ UNCHANGED <<source, tokens, ast, handlers, ctxHandlers, constants,
                   encryptionKey, encMethod, reconstructedProto, outcome, runs>>
    /\ UNCHANGED <<decryptVars, emitVars, reconstructVars, frontVars, driverVars, analyzeVars>>

AnalyzeAST ==
    LET Returned(r) ==
            /\ handlers' = r.handlers
            /\ ctxHandlers' = r.ctxHandlers
            /\ constants' = r.constants
            /\ encryptionKey' = r.encryptionKey
            /\ encMethod' = r.encMethod
            /\ reconstructedProto' = IF r.threw THEN reconstructedProto
                                      ELSE r.reconstructedProto
            /\ pc' = IF r.threw THEN "threw" ELSE "analyzed"
    IN  /\ pc = "gated"
        /\ Returned(analyzeAST(ast, [ctxHandlers |-> ctxHandlers,
                                     encryptionKey |-> encryptionKey,
                                     encMethod |-> encMethod]))
        /\ runs' = runs + 1
        /\ UNCHANGED <<source, tokens, ast, accepted, outcome>>
        /\ UNCHANGED <<decryptVars, emitVars, reconstructVars, frontVars, driverVars, analyzeVars>>

ReconstructBytecode ==
    /\ pc \in {"analyzed", "threw"}
    /\ outcome' = reconstructBytecode(handlers, constants,
                                      EncryptionInfo(encryptionKey, encMethod))
    /\ pc' = "done"
    /\ UNCHANGED <<source, tokens, ast, accepted, handlers, ctxHandlers, constants,
                   encryptionKey, encMethod, reconstructedProto, runs>>
    /\ UNCHANGED <<decryptVars, emitVars, reconstructVars, frontVars, driverVars, analyzeVars>>

-----------------------------------------------------------------------------
(* Callers of LuraphDecryptor *)

SampleKey == S("0123456789ABCDEF")
SamplePlain == S("local x=1")
\* "local x=1" xor-ed byte by byte with SampleKey
XorSample ==
    <<92, 94, 81, 82, 88, 21, 78, 10, 9>>
HexSample == S("656f6602")

Ciphertexts == {<<>>, S("A"), S("print"), S("a:b"), HexSample, XorSample}
\* key is typed string, but nothing checks it at run time
Keys == {Undefined, Str(<<>>), Str(S("A")), Str(SampleKey)}
Methods == {"auto", "xor_v1", "xor_v2", "aes_cbc", "aes_cbc_v2", "luraph_custom",
            "luraph"}
Ivs == {Undefined, Str(S("0f"))}

NoResult == Result(FALSE, <<>>, "")
NoInput == [encrypted |-> <<>>,
            encryptionInfo |-> [method |-> "", key |-> Undefined, iv |-> Undefined]]

\* decryptString on the input drawn in the initial state
DecryptString ==
    /\ dpc = "ready"
    /\ dOut' = decryptString(dIn.encrypted, dIn.encryptionInfo)
    /\ dpc' = "decrypted"
    /\ UNCHANGED <<dIn, dConstants>>
    /\ UNCHANGED <<pipeVars, emitVars, reconstructVars, frontVars, driverVars, analyzeVars>>

StringConstant(text) == [type |-> "string", value |-> Str(text), index |-> 0]
NumberConstant == [type |-> "number", value |-> Num(1, 0), index |-> 1]

\* BytecodeReconstructor.decryptConstants on the constants of a context
DecryptConstants ==
    /\ dpc = "ready"
    /\ dConstants' =
          [before |-> <<StringConstant(dIn.encrypted), NumberConstant>>,
           after |-> decryptConstants(<<StringConstant(dIn.encrypted), NumberConstant>>,
                                      dIn.encryptionInfo)]
    /\ dpc' = "reconstructor"
    /\ UNCHANGED <<dIn, dOut>>
    /\ UNCHANGED <<pipeVars, emitVars, reconstructVars, frontVars, driverVars, analyzeVars>>

\* The constant table { "<encrypted>", 1, 1, 1, 1, 1 } as the parser builds it
EncryptedTable(encrypted) ==
    LET Field(v) == [type |-> "TableField", key |-> Undefined, value |-> v]
        one == Field([type |-> "Literal", value |-> Num(1, 0), dataType |-> "number"])
        fields == <<Field([type |-> "EncryptedString", encryptedValue |-> encrypted,
                           encryptionMethod |-> "luraph"]),
                    one, one, one, one, one>>
    IN  [type |-> "TableConstructor", fields |-> fields,
         isConstantTable |-> isConstantTable(fields)]

\* LuraphVM.extractConstants on a constant table that holds an EncryptedString
ExtractConstants ==
    /\ dpc = "ready"
    /\ dConstants' =
          [before |-> <<StringConstant(dIn.encrypted), NumberConstant>>,
           after |-> SubSeq(extractConstants(EncryptedTable(dIn.encrypted),
                                             dIn.encryptionInfo),
                            1, 2)]
    /\ dpc' = "analyzer"
    /\ UNCHANGED <<dIn, dOut>>
    /\ UNCHANGED <<pipeVars, emitVars, reconstructVars, frontVars, driverVars, analyzeVars>>

-----------------------------------------------------------------------------
(* Callers of LuacGenerator *)

\* One instruction more than a proto without constants can hold in the
\* 64 KB buffer: 33 + 19 + 11 + 8 * 8181 + 24 bytes.
MaxInstructions == 8181

ProtoOf(n, cs) ==
    [EmptyProto(cs, 2) EXCEPT
        !.instructions = [i \in 1..n |-> Instruction(LuaOpcode.MOVE, 0, 1, 0, i)],
        !.lastLineDefined = n]

Protos ==
    {ProtoOf(n, cs) : n \in {0, 1, 2, MaxInstructions},
                      cs \in {<<>>, <<StringConstant(S("print"))>>, <<NumberConstant>>}}

Opcodes == {LuaOpcode.MOVE, LuaOpcode.LOADK, LuaOpcode.JMP, LuaOpcode.EXTRAARG, 63}
Operands(extended) ==
    [a : {0, 1, 255}, b : {0, 511}, c : {0, 1},
     bx : IF extended = "bx" THEN {Num(0, 0), Num(1, 0), Num(262143, 0)} ELSE {Undefined},
     sbx : IF extended = "sbx" THEN {Num(-131071, 0), Num(0, 0), Num(131072, 0)}
           ELSE {Undefined},
     ax : IF extended = "ax" THEN {Num(0, 0), Num(2, 0), Num(67108863, 0)}
          ELSE {Undefined}]
Instructions ==
    {[opcode |-> o, a |-> r.a, b |-> r.b, c |-> r.c, bx |-> r.bx, sbx |-> r.sbx,
      ax |-> r.ax, line |-> 0] :
        o \in Opcodes,
        r \in Operands("") \cup Operands("bx") \cup Operands("sbx") \cup Operands("ax")}

\* generateLuac on the proto drawn in the initial state
GenerateLuac ==
    /\ epc = "proto"
    /\ eOut' = generateLuac(eIn)
    /\ epc' = "generated"
    /\ UNCHANGED eIn
    /\ UNCHANGED <<pipeVars, decryptVars, reconstructVars, frontVars, driverVars, analyzeVars>>

ValidateLuac ==
    /\ epc = "generated" /\ ~eOut.threw
    /\ eOut' = [bytes |-> eOut.bytes, valid |-> validateLuac(eOut.bytes)]
    /\ epc' = "validated"
    /\ UNCHANGED eIn
    /\ UNCHANGED <<pipeVars, decryptVars, reconstructVars, frontVars, driverVars, analyzeVars>>

Strings == {Str(<<>>), Str(S("A")), Str(S("print")), Str(S("@deobfuscated.lua"))}

\* writeString on the string drawn in the initial state
WriteString ==
    /\ epc = "string"
    /\ eOut' = writeString(eIn)
    /\ epc' = "written"
    /\ UNCHANGED eIn
    /\ UNCHANGED <<pipeVars, decryptVars, reconstructVars, frontVars, driverVars, analyzeVars>>

\* encodeInstruction on the instruction drawn in the initial state
EncodeInstruction ==
    /\ epc = "instruction"
    /\ eOut' = encodeInstruction(eIn)
    /\ epc' = "encoded"
    /\ UNCHANGED eIn
    /\ UNCHANGED <<pipeVars, decryptVars, reconstructVars, frontVars, driverVars, analyzeVars>>

-----------------------------------------------------------------------------
(* Callers of BytecodeReconstructor *)

HandlerTexts ==
    {S("R[0] = R[1]"), S("R[1] = R[1]"), S("R[1] = K[0]"), S("R[0]("),
     S("return"), S("nop"), S("function x(...) /* handler code */ end")}

HandlerOf(index, text) ==
    [index |-> index, opcode |-> LuaOpcode.MOVE, handler |-> text,
     encrypted |-> FALSE, decrypted |-> Undefined]

\* The handler maps with at most MaxHandlers entries, keyed 0, 1, ... in
\* any order of insertion
MaxHandlers == 2
HandlerMaps ==
    UNION {{[i \in 1..n |-> [key |-> keys[i], value |-> HandlerOf(keys[i], texts[i])]] :
                texts \in [1..n -> HandlerTexts],
                keys \in {k \in [1..n -> 0..(n - 1)] :
                              \A i, j \in 1..n : k[i] = k[j] => i = j}} :
           n \in 0..MaxHandlers}

Contexts ==
    [handlers : HandlerMaps,
     constants : {<<>>, <<StringConstant(S("print"))>>},
     encryptionInfo : {EncryptionInfo(<<>>, "auto")}]

LoadK(a, bx) == [Instruction(LuaOpcode.LOADK, a, 0, 0, 0) EXCEPT !.bx = Num(bx, 0)]
Jmp(sbx) == [Instruction(LuaOpcode.JMP, 0, 0, 0, 0) EXCEPT !.sbx = Num(sbx, 0)]

SampleInstructions ==
    {Instruction(LuaOpcode.MOVE, 1, 1, 0, 0), Instruction(LuaOpcode.MOVE, 0, 1, 0, 0),
     LoadK(0, 0), LoadK(0, 2),
     Instruction(LuaOpcode.ADD, 0, 1, 2, 0), Instruction(LuaOpcode.SUB, 0, 1, 2, 0),
     Jmp(-2), Jmp(1), Jmp(2),
     Instruction(LuaOpcode.RETURN, 0, 1, 0, 0)}

\* The instruction lists with at most MaxCode instructions
MaxCode == 3
Codes == UNION {[1..n -> SampleInstructions] : n \in 0..MaxCode}

Pools ==
    {<<>>,
     <<StringConstant(S("print")), StringConstant(S("print"))>>,
     <<StringConstant(S("print")), NumberConstant, StringConstant(S("print"))>>,
     <<StringConstant(S("a:b"))>>}

\* The protos reconstructFromVM builds before it optimises them: the
\* instruction of the handler with index i carries line i.
ReconstructedProtos ==
    {[EmptyProto(cs, calculateMaxStackSize(code)) EXCEPT
         !.instructions = [i \in 1..Len(code) |-> [code[i] EXCEPT !.line = i - 1]],
         !.lastLineDefined = Len(code)] :
        code \in Codes, cs \in Pools}

\* reconstructFromVM on the context drawn in the initial state
ReconstructFromVM ==
    /\ rpc = "context"
    /\ rOut' = reconstructFromVM(rIn)
    /\ rpc' = "reconstructed"
    /\ UNCHANGED rIn
    /\ UNCHANGED <<pipeVars, decryptVars, emitVars, frontVars, driverVars, analyzeVars>>

\* optimizeReconstructedBytecode on the proto drawn in the initial state
OptimizeReconstructedBytecode ==
    /\ rpc = "proto"
    /\ rOut' = optimizeReconstructedBytecode(rIn)
    /\ rpc' = "optimized"
    /\ UNCHANGED rIn
    /\ UNCHANGED <<pipeVars, decryptVars, emitVars, frontVars, driverVars, analyzeVars>>

RemoveRedundantInstructions ==
    /\ rpc = "proto"
    /\ rOut' = removeRedundantInstructions(rIn.instructions)
    /\ rpc' = "peephole"
    /\ UNCHANGED rIn
    /\ UNCHANGED <<pipeVars, decryptVars, emitVars, frontVars, driverVars, analyzeVars>>

OptimizeConstantLoading ==
    /\ rpc = "proto"
    /\ rOut' = optimizeConstantLoading(rIn)
    /\ rpc' = "deduplicated"
    /\ UNCHANGED rIn
    /\ UNCHANGED <<pipeVars, decryptVars, emitVars, frontVars, driverVars, analyzeVars>>

RemoveDeadCode ==
    /\ rpc = "proto"
    /\ rOut' = removeDeadCode(rIn)
    /\ rpc' = "swept"
    /\ UNCHANGED rIn
    /\ UNCHANGED <<pipeVars, decryptVars, emitVars, frontVars, driverVars, analyzeVars>>

-----------------------------------------------------------------------------
(* The page component: handleDeobfuscate *)

deobfuscationSteps ==
    <<"Parsing Lua file...",
      "Building abstract syntax tree...",
      "Detecting VM handlers...",
      "Finding encryption information...",
      "Decrypting bytecode...",
      "Removing antidecompiler tricks...",
      "Optimizing bytecode...",
      "Generating output file...">>

\* The progress counted down from the last step instead of up from the first
StepProgressReversed(i) ==
    ((Len(deobfuscationSteps) - i) * 1000) \div Len(deobfuscationSteps)

\* (i / deobfuscationSteps.length) * 100, in tenths of a percent
StepProgress(i) == (i * 1000) \div Len(deobfuscationSteps)

\* !inputCode.trim()
IsBlank(text) == \A i \in 1..Len(text) : text[i] \in {9, 10, 11, 12, 13, 32}

Scripts == {<<>>, S(" "), S("x = a + b"), S("-- protected using Luraph")}
MaxClicks == 4

\* CodeEditor onChange={setInputCode}.  A handleDeobfuscate in flight keeps
\* the inputCode of the render it was started from.
SetInputCode(content) ==
    /\ hpc = "idle"
    /\ inputCode' = content
    /\ UNCHANGED <<hpc, outputCode, isProcessing, progress, currentStep, stepIndex,
                   events, clicks>>
    /\ UNCHANGED <<pipeVars, decryptVars, emitVars, reconstructVars, frontVars, analyzeVars>>

\* handleDeobfuscate up to its first await: the toast for a blank input, or
\* the reset of the state and the first iteration of the loop.
HandleDeobfuscate ==
    /\ hpc = "idle" /\ ~isProcessing /\ clicks < MaxClicks
    /\ clicks' = clicks + 1
    /\ IF IsBlank(inputCode)
       THEN UNCHANGED <<hpc, outputCode, isProcessing, progress, currentStep,
                        stepIndex, events>>
       ELSE /\ isProcessing' = TRUE
            /\ outputCode' = <<>>
            /\ stepIndex' = 0
            /\ currentStep' = deobfuscationSteps[1]
            /\ progress' = StepProgress(0)
            /\ events' = <<[step |-> deobfuscationSteps[1],
                            progress |-> StepProgress(0)]>>
            /\ hpc' = "sleeping"
    /\ UNCHANGED inputCode
    /\ UNCHANGED <<pipeVars, decryptVars, emitVars, reconstructVars, frontVars, analyzeVars>>

\* The timer of one iteration resolves: the next iteration, or after the
\* last one the call of deobfuscateLuaScript.
TimerResolved ==
    /\ hpc = "sleeping"
    /\ stepIndex' = stepIndex + 1
    /\ IF stepIndex + 1 < Len(deobfuscationSteps)
       THEN /\ currentStep' = deobfuscationSteps[stepIndex + 2]
            /\ progress' = StepProgress(stepIndex + 1)
            /\ events' = Append(events, [step |-> deobfuscationSteps[stepIndex + 2],
                                         progress |-> StepProgress(stepIndex + 1)])
            /\ UNCHANGED hpc
       ELSE /\ hpc' = "deobfuscating"
            /\ UNCHANGED <<currentStep, progress, events>>
    /\ UNCHANGED <<inputCode, outputCode, isProcessing, clicks>>
    /\ UNCHANGED <<pipeVars, decryptVars, emitVars, reconstructVars, frontVars, analyzeVars>>

\* deobfuscateLuaScript resolved with the deobfuscated code
DeobfuscateResolved ==
    /\ hpc = "deobfuscating"
    /\ outputCode' = S("result")
    /\ progress' = 1000
    /\ currentStep' = "Deobfuscation completed successfully!"
    /\ events' = Append(events, [step |-> "Deobfuscation completed successfully!",
                                 progress |-> 1000])
    /\ isProcessing' = FALSE
    /\ hpc' = "idle"
    /\ UNCHANGED <<inputCode, stepIndex, clicks>>
    /\ UNCHANGED <<pipeVars, decryptVars, emitVars, reconstructVars, frontVars, analyzeVars>>

\* deobfuscateLuaScript rejected: the toast, and the finally block
DeobfuscateRejected ==
    /\ hpc = "deobfuscating"
    /\ isProcessing' = FALSE
    /\ hpc' = "idle"
    /\ UNCHANGED <<inputCode, outputCode, progress, currentStep, stepIndex, events,
                   clicks>>
    /\ UNCHANGED <<pipeVars, decryptVars, emitVars, reconstructVars, frontVars, analyzeVars>>

-----------------------------------------------------------------------------
(* Callers of LuaLexer and LuaParser *)

Words ==
    {S("x"), S("1"), S("="), S(")"), S(";"), S("@"), S("a$b"),
     S("local"), S("return"), S("..")}

\* The texts of at most MaxWords words, separated by blanks
MaxWords == 3
RECURSIVE Joined(_)
Joined(words) ==
    IF words = <<>> THEN <<>>
    ELSE IF Len(words) = 1 THEN words[1]
    ELSE words[1] \o <<32>> \o Joined(Tail(words))
\* Expressions of three operands
ExpressionTexts ==
    {S("a .. b .. c"), S("a .. b + c"), S("a + b .. c"), S("a < b .. c"),
     S("a .. b < c"), S("a + b + c"), S("( x )"), S("x ( 1 )"), S("( x")}
\* Statements that hold a block with an error in it
BlockTexts ==
    {S("function ( ) ) end"), S("function ( ) x = 1 ; ) end x"),
     S("if x then ) end"), S("while x do ) ; end"), S("if x then ; else ) end ; )")}
\* Strings, comments, long strings and numbers, closed and left open
LiteralTexts ==
    {S("\"ab\" x"), S("\"ab"), S("'a\\nb' 1"), S("--c") \o <<10>> \o S("x"),
     S("--[[c]] x"), S("--[[c"), S("[[s]] x"), S("[=[ x"), S("[=x"),
     S("1.5e+3 x"), S("1..2"), S("x") \o <<9, 10, 32>> \o S("y "), S("\"\\x41\" lIlI")}
Texts ==
    UNION {{Joined(words) : words \in [1..n -> Words]} : n \in 0..MaxWords}
        \cup ExpressionTexts \cup BlockTexts \cup LiteralTexts

\* new LuaLexer(input).tokenize() on the text drawn in the initial state
TokenizeText ==
    /\ fpc = "text"
    /\ fOut' = tokenize(fIn)
    /\ fpc' = "lexed"
    /\ UNCHANGED fIn
    /\ UNCHANGED <<pipeVars, decryptVars, emitVars, reconstructVars, driverVars, analyzeVars>>

\* new LuaParser(tokens).parse() on the tokens of the text
ParseText ==
    /\ fpc = "text"
    /\ fOut' = parse(tokenize(fIn))
    /\ fpc' = "parsed"
    /\ UNCHANGED fIn
    /\ UNCHANGED <<pipeVars, decryptVars, emitVars, reconstructVars, driverVars, analyzeVars>>

\* The first parseStatement call of a parser on the tokens of the text: where
\* its try block threw, if it did, and the position the call returned at.
ParseStatement ==
    LET Returned(toks, body, stmt) ==
            fOut' = [tokens |-> toks, threw |-> ~body.ok, thrownAt |-> body.pos,
                     position |-> stmt.pos, node |-> stmt.node]
        First(toks) ==
            Returned(toks, Invoke("parseStatementBody", toks, 0, <<>>),
                     Invoke("parseStatement", toks, 0, <<>>))
    IN  /\ fpc = "text"
        /\ First(filterTokens(tokenize(fIn)))
        /\ fpc' = "statement"
        /\ UNCHANGED fIn
        /\ UNCHANGED <<pipeVars, decryptVars, emitVars, reconstructVars, driverVars, analyzeVars>>

-----------------------------------------------------------------------------
(* Specifications *)

InitPipeline ==
    /\ pc = "idle" /\ source = <<>> /\ tokens = <<>> /\ ast = NoNode
    /\ accepted = [current |-> FALSE, later |-> FALSE]
    /\ handlers = <<>> /\ ctxHandlers = NewVM.ctxHandlers /\ constants = <<>>
    /\ encryptionKey = NewVM.encryptionKey /\ encMethod = NewVM.encMethod
    /\ reconstructedProto = <<>> /\ outcome = NoOutcome /\ runs = 0

InitDecryptIdle ==
    /\ dpc = "idle" /\ dIn = NoInput /\ dOut = NoResult
    /\ dConstants = [before |-> <<>>, after |-> <<>>]

InitEmitIdle == epc = "idle" /\ eIn = <<>> /\ eOut = <<>>

InitReconstructIdle == rpc = "idle" /\ rIn = <<>> /\ rOut = <<>>

InitFrontIdle == fpc = "idle" /\ fIn = <<>> /\ fOut = <<>>

InitAnalyzeIdle == apc = "idle" /\ aIn = <<>> /\ aOut = <<>>

\* The page component after its first render
InitDriver ==
    /\ hpc = "idle" /\ inputCode = <<>> /\ outputCode = <<>>
    /\ isProcessing = FALSE /\ progress = 0 /\ currentStep = ""
    /\ stepIndex = 0 /\ events = <<>> /\ clicks = 0

\* One LuraphVM after its constructor; sources are then run through it.
Init ==
    /\ InitPipeline /\ InitDecryptIdle /\ InitEmitIdle /\ InitReconstructIdle
    /\ InitFrontIdle /\ InitDriver /\ InitAnalyzeIdle

Next ==
    \/ \E src \in Sources : Tokenize(src)
    \/ Parse
    \/ IsValidLuraphScript
    \/ AnalyzeAST
    \/ ReconstructBytecode

Spec == Init /\ [][Next]_vars

EncryptionInfos == [method : Methods, key : Keys, iv : Ivs]

\* A ciphertext and an EncryptionInfo, to which the callers are applied.
InitDecrypt ==
    /\ InitPipeline /\ InitEmitIdle /\ InitReconstructIdle
    /\ InitFrontIdle /\ InitDriver /\ InitAnalyzeIdle
    /\ dpc = "ready"
    /\ dIn \in [encrypted : Ciphertexts, encryptionInfo : EncryptionInfos]
    /\ dOut = NoResult
    /\ dConstants = [before |-> <<>>, after |-> <<>>]

NextDecrypt ==
    \/ DecryptString
    \/ DecryptConstants
    \/ ExtractConstants

SpecDecrypt == InitDecrypt /\ [][NextDecrypt]_vars

\* A proto or an instruction, to which the generator is applied.
InitEmit ==
    /\ InitPipeline /\ InitDecryptIdle /\ InitReconstructIdle
    /\ InitFrontIdle /\ InitDriver /\ InitAnalyzeIdle
    /\ \/ epc = "proto" /\ eIn \in Protos
       \/ epc = "instruction" /\ eIn \in Instructions
       \/ epc = "string" /\ eIn \in Strings
    /\ eOut = <<>>

NextEmit ==
    \/ GenerateLuac
    \/ ValidateLuac
    \/ EncodeInstruction
    \/ WriteString

SpecEmit == InitEmit /\ [][NextEmit]_vars

\* A reconstruction context or a proto, to which the reconstructor and its
\* optimisation passes are applied.
InitReconstruct ==
    /\ InitPipeline /\ InitDecryptIdle /\ InitEmitIdle
    /\ InitFrontIdle /\ InitDriver /\ InitAnalyzeIdle
    /\ \/ rpc = "context" /\ rIn \in Contexts
       \/ rpc = "proto" /\ rIn \in ReconstructedProtos
    /\ rOut = <<>>

NextReconstruct ==
    \/ ReconstructFromVM
    \/ OptimizeReconstructedBytecode
    \/ RemoveRedundantInstructions
    \/ OptimizeConstantLoading
    \/ RemoveDeadCode

SpecReconstruct == InitReconstruct /\ [][NextReconstruct]_vars

\* The page component, driven by edits of the input and clicks on the button.
InitPage ==
    /\ InitPipeline /\ InitDecryptIdle /\ InitEmitIdle /\ InitReconstructIdle
    /\ InitFrontIdle /\ InitDriver /\ InitAnalyzeIdle

NextPage ==
    \/ \E content \in Scripts : SetInputCode(content)
    \/ HandleDeobfuscate
    \/ TimerResolved
    \/ DeobfuscateResolved
    \/ DeobfuscateRejected

SpecPage == InitPage /\ [][NextPage]_vars

\* A text, to which the lexer and the parser are applied.
InitFront ==
    /\ InitPipeline /\ InitDecryptIdle /\ InitEmitIdle /\ InitReconstructIdle
    /\ InitDriver /\ InitAnalyzeIdle
    /\ fpc = "text" /\ fIn \in Texts /\ fOut = <<>>

NextFront ==
    \/ TokenizeText
    \/ ParseStatement
    \/ ParseText

SpecFront == InitFront /\ [][NextFront]_vars

-----------------------------------------------------------------------------
(* Properties of the pipeline, checked under Spec *)

\* C1: running lexer, parser, analyzeAST and reconstructBytecode on the source
\* "local function handler_1(...) R[0] = R[1] end" yields exactly one
\* processed handler and a proto whose first instruction is MOVE a=0 b=1 c=0.
C1_HandlerReconstructed ==
    (pc = "done" /\ source = HandlerSource) =>
        /\ outcome.statistics.handlersProcessed = 1
        /\ Len(outcome.proto.instructions) >= 1
        /\ outcome.proto.instructions[1].opcode = LuaOpcode.MOVE
        /\ outcome.proto.instructions[1].a = 0
        /\ outcome.proto.instructions[1].b = 1
        /\ outcome.proto.instructions[1].c = 0

\* C2: for a source that declares the 6-entry literal table whose first
\* entry is "print" and a handler with body R[0] = K[0], the pipeline
\* produces a proto with constant 0 the string "print" and first instruction
\* LOADK with a = 0 and bx = 0.
C2_ConstantLoaded ==
    (pc = "done" /\ source \in {ConstantTableSource, BareTableSource}) =>
        /\ Len(outcome.proto.constants) >= 1
        /\ outcome.proto.constants[1].type = "string"
        /\ outcome.proto.constants[1].value = Str(S("print"))
        /\ Len(outcome.proto.instructions) >= 1
        /\ outcome.proto.instructions[1].opcode = LuaOpcode.LOADK
        /\ outcome.proto.instructions[1].a = 0
        /\ outcome.proto.instructions[1].bx = Num(0, 0)

\* The state a fresh LuraphVM has after analyzeAST of the current AST.
FreshAnalysis == analyzeAST(ast, NewVM)

\* C3: after any sequence of analyzeAST calls on one instance, the handlers
\* map, vmContext.handlers, the constants, the encryption key and the
\* encryption method equal what a fresh instance produces for the last AST.
C3_NothingSurvives ==
    pc \in {"analyzed", "threw"} =>
        /\ handlers = FreshAnalysis.handlers
        /\ ctxHandlers = FreshAnalysis.ctxHandlers
        /\ constants = FreshAnalysis.constants
        /\ encryptionKey = FreshAnalysis.encryptionKey
        /\ encMethod = FreshAnalysis.encMethod

\* The children of an AST node, by node type
Children(n) ==
    CASE n.type = "BlockStatement" -> n.statements
      [] n.type = "FunctionDeclaration" -> <<n.name>> \o n.parameters \o <<n.body>>
      [] n.type = "AssignmentExpression" -> n.left \o n.right
      [] n.type = "CallExpression" -> <<n.callee>> \o n.arguments
      [] n.type = "BinaryExpression" -> <<n.left, n.right>>
      [] n.type = "UnaryExpression" -> <<n.argument>>
      [] n.type = "TableConstructor" -> n.fields
      [] n.type = "TableField" ->
            (IF n.key = Undefined THEN <<>> ELSE <<n.key>>) \o <<n.value>>
      [] n.type = "IfStatement" ->
            <<n.condition, n.consequent>>
            \o (IF n.alternate = Undefined THEN <<>> ELSE <<n.alternate>>)
      [] n.type = "ForStatement" -> <<n.init, n.condition, n.update, n.body>>
      [] n.type = "WhileStatement" -> <<n.condition, n.body>>
      [] n.type = "ReturnStatement" -> n.arguments
      [] OTHER -> <<>>

\* Every node of an AST
RECURSIVE Descendants(_)
Descendants(n) ==
    <<n>> \o Flatten([i \in 1..Len(Children(n)) |-> Descendants(Children(n)[i])])

\* (a) the source text contains one of the markers, case-insensitive
HasMarker(text) ==
    \E marker \in {S("luraph"), S("lura.ph"), S("protected using luraph"),
                    S("obfuscator")} : Includes(ToLower(text), marker)

\* (b) the six source patterns: R[...], K[...], handler_<digits>, vm_<word>,
\* a hex literal, an identifier longer than 15 characters
SourcePatterns(text) ==
    <<BracketAccessIn(text, 82),
      BracketAccessIn(text, 75),
      PrefixThen(text, S("handler_"), IsDigitCode),
      PrefixThen(text, S("vm_"), IsWordCode),
      PrefixThen(text, S("0x"), IsHexCode),
      \E p \in 0..(Len(text) - 1) :
          /\ IsAlphaCode(text[p + 1]) \/ text[p + 1] = 95
          /\ ScanWhile(text, p, IsWordCode) - p > 15>>

\* (c) the AST has a vm_handler function and an EncryptedString
HasHandlerAndEncryptedString(root) ==
    /\ \E i \in 1..Len(Descendants(root)) :
          /\ Descendants(root)[i].type = "FunctionDeclaration"
          /\ Descendants(root)[i].isVMHandler
    /\ \E i \in 1..Len(Descendants(root)) :
          Descendants(root)[i].type = "EncryptedString"

LooksLikeLuraph ==
    \/ HasMarker(source)
    \/ Cardinality({i \in 1..6 : SourcePatterns(source)[i]}) >= 2
    \/ HasHandlerAndEncryptedString(ast)

\* C4: the Luraph gate accepts an input if and only if (a), (b) or (c) holds
\* and rejects every other input; stated of the gate in its weakest reading,
\* that one of the two revisions of isValidLuraphScript decides so.
C4_GateDecides ==
    pc \in {"gated", "analyzed", "threw", "done"} =>
        \/ accepted.current <=> LooksLikeLuraph
        \/ accepted.later <=> LooksLikeLuraph

-----------------------------------------------------------------------------
(* Properties of LuacGenerator, checked under SpecEmit *)

\* The header of a Lua 5.3 chunk: the magic 0x1B4C7561 as a little-endian
\* u32, version 0x53, format 0, the data 19 93 0D 0A 1A 0A, the sizes
\* 4 8 4 8 8, the integer 0x5678 and the number 370.5.
FixedHeader ==
    <<97, 117, 76, 27, 83, 0, 25, 147, 13, 10, 26, 10, 4, 8, 4, 8, 8,
      120, 86, 0, 0, 0, 0, 0, 0, 0, 0, 0, 0, 0, 40, 119, 64>>

\* C5: for every VMProto, whatever its size, generateLuac returns a byte
\* array that begins with the fixed 33-byte header, and validateLuac of that
\* array is true.
C5_AlwaysEmits ==
    epc = "generated" =>
        /\ ~eOut.threw
        /\ Len(eOut.bytes) >= 33
        /\ SubSeq(eOut.bytes, 1, 33) = FixedHeader
        /\ validateLuac(eOut.bytes)

\* The fields of a 32-bit word <<high, low>> by the Lua 5.3 layout: opcode
\* in bits 0-5, A in 6-13, C in 14-22, B in 23-31, Bx in 14-31, Ax in 6-31.
Decoded(w) ==
    [opcode |-> w[2] % 64,
     a |-> (w[2] \div 64) % 256,
     c |-> (w[2] \div 16384) + (w[1] % 128) * 4,
     b |-> w[1] \div 128,
     bx |-> (w[2] \div 16384) + w[1] * 4,
     sbx |-> (w[2] \div 16384) + w[1] * 4 - 131071,
     ax |-> (w[2] \div 64) + w[1] * 1024]

\* C6: encodeInstruction is lossless in each of the four forms: decoding the
\* word by the Lua 5.3 layout returns the original opcode and operands, for
\* the ABC, ABx, AsBx and Ax forms.
C6_Lossless ==
    epc = "encoded" =>
        /\ Decoded(eOut).opcode = eIn.opcode
        /\ IF eIn.bx # Undefined
           THEN Decoded(eOut).a = eIn.a /\ Decoded(eOut).bx = eIn.bx.m
           ELSE IF eIn.sbx # Undefined
           THEN Decoded(eOut).a = eIn.a /\ Decoded(eOut).sbx = eIn.sbx.m
           ELSE IF eIn.ax # Undefined
           THEN Decoded(eOut).ax = eIn.ax.m
           ELSE /\ Decoded(eOut).a = eIn.a
                /\ Decoded(eOut).b = eIn.b
                /\ Decoded(eOut).c = eIn.c

-----------------------------------------------------------------------------
(* Properties of LuraphDecryptor and its callers, checked under SpecDecrypt *)

XorMethods == {"xor_v1", "xor_v2", "luraph_custom"}

\* C7: for every plaintext byte string, every key and each method among
\* xor_v1, xor_v2 and luraph_custom there is a ciphertext that decryptString
\* with that key and method turns into exactly the plaintext.  The byte
\* string of the state is taken as the plaintext; the three methods keep the
\* length, so the ciphertexts of that length are searched.
C7_Invertible ==
    (/\ dpc = "decrypted"
     /\ dIn.encryptionInfo.method \in XorMethods
     /\ dIn.encryptionInfo.key # Undefined
     /\ Len(dIn.encrypted) <= 1) =>
        \E c \in [1..Len(dIn.encrypted) -> 0..255] :
            decryptString(c, dIn.encryptionInfo).decrypted = dIn.encrypted

\* The successful candidates of the five algorithms, in the order xor_v1,
\* xor_v2, aes_cbc, aes_cbc_v2, luraph_custom
FiveCandidates ==
    SelectSeq(<<xorDecryptV1(dIn.encrypted, dIn.encryptionInfo.key),
                xorDecryptV2(dIn.encrypted, dIn.encryptionInfo.key),
                aesDecrypt(dIn.encrypted, dIn.encryptionInfo.key, Undefined),
                aesDecryptV2(dIn.encrypted, dIn.encryptionInfo.key, Undefined),
                luraphCustomDecrypt(dIn.encrypted, dIn.encryptionInfo.key)>>,
              LAMBDA r : r.success)

\* The earliest candidate whose score is maximal
EarliestBest(candidates) ==
    candidates[Min({i \in 1..Len(candidates) :
        \A j \in 1..Len(candidates) :
            scoreLuaCode(candidates[j].decrypted)
                <= scoreLuaCode(candidates[i].decrypted)})]

\* C8: in auto mode decryptString evaluates all five algorithms and returns
\* the candidate with the maximal score, the earliest of them in the order
\* xor_v1, xor_v2, aes_cbc, aes_cbc_v2, luraph_custom on a tie.
C8_BestOfFive ==
    (/\ dpc = "decrypted"
     /\ dIn.encryptionInfo.method = "auto"
     /\ FiveCandidates # <<>>) =>
        /\ dOut.decrypted = EarliestBest(FiveCandidates).decrypted
        /\ dOut.method = EarliestBest(FiveCandidates).method

\* "local x=1" xor-ed byte by byte with the key "0123456789ABCDEF"
XorCiphertext == [i \in 1..Len(SamplePlain) |-> BitXor(SamplePlain[i], SampleKey[i])]

\* C9: given the ciphertext obtained by xor-ing "local x=1" byte by byte with
\* the key "0123456789ABCDEF", decryptString in auto mode with that key
\* returns "local x=1" and reports the method xor_v1.
C9_AutoFindsXor ==
    (/\ dpc = "decrypted"
     /\ dIn.encrypted = XorCiphertext
     /\ dIn.encryptionInfo.method = "auto"
     /\ dIn.encryptionInfo.key = Str(SampleKey)) =>
        dOut.decrypted = SamplePlain /\ dOut.method = "xor_v1"

C9_Reached ==
    /\ dpc = "decrypted"
    /\ dIn.encrypted = XorCiphertext
    /\ dIn.encryptionInfo.method = "auto"
    /\ dIn.encryptionInfo.key = Str(SampleKey)
    /\ dOut.success /\ dOut.decrypted = S("local x=1")

\* C10: decryptString never propagates an exception: it returns a result for
\* every ciphertext, key and method, and a result with success = false holds
\* the input ciphertext unchanged; the analyzer and the reconstructor then
\* keep the constant's original value and go on.
C10_FailureKeepsCiphertext ==
    /\ dpc = "decrypted" =>
          /\ ~dOut.threw
          /\ ~dOut.success => dOut.decrypted = dIn.encrypted
    /\ (/\ dpc \in {"reconstructor", "analyzer"}
        /\ ~decryptString(dIn.encrypted, dIn.encryptionInfo).success) =>
          /\ Len(dConstants.after) = Len(dConstants.before)
          /\ dConstants.after[1].value = dConstants.before[1].value

C10_FailureReached ==
    /\ dpc = "reconstructor"
    /\ dIn.encrypted = S("print")
    /\ dIn.encryptionInfo.method = "xor_v1"
    /\ dIn.encryptionInfo.key = Undefined
    /\ dConstants.after[1].value = Str(S("print"))

-----------------------------------------------------------------------------
(* Reconstruction of handlers that match no pattern *)

\* The handler texts in which none of the six patterns occurs
UnmatchedTexts == {S("nop"), S("function x(...) /* handler code */ end")}

UnmatchedHandlers(context) ==
    {i \in 1..Len(context.handlers) :
        context.handlers[i].value.handler \in UnmatchedTexts}

\* C11: for every handler whose body matches no known pattern, the proto that
\* reconstructFromVM returns holds the placeholder MOVE 0 0 0 of that handler,
\* and the statistics' list of messages has exactly one entry per such handler.
C11_PlaceholderKept ==
    rpc = "reconstructed" =>
        /\ \A i \in UnmatchedHandlers(rIn) :
              \E n \in 1..Len(rOut.proto.instructions) :
                  rOut.proto.instructions[n] =
                      Instruction(LuaOpcode.MOVE, 0, 0, 0, rIn.handlers[i].value.index)
        /\ Len(rOut.statistics.errors) = Cardinality(UnmatchedHandlers(rIn))

-----------------------------------------------------------------------------
(* Stack size of the protos the analyzer hands out *)

\* C12: the reconstructedProto of every DeobfuscationContext that analyzeAST
\* returns, and every proto that reconstructBytecode returns, whether the
\* reconstruction succeeded or failed, has maxStackSize >= 2.
C12_MinimumStack ==
    /\ pc = "analyzed" => reconstructedProto.maxStackSize >= 2
    /\ pc = "done" => outcome.proto.maxStackSize >= 2

-----------------------------------------------------------------------------
(* Progress events of one run *)

Stages ==
    <<"lex", "parse", "detect_vm", "find_encryption", "decrypt",
      "strip_antidecompile", "optimize", "emit">>

\* The stage a step text of the page stands for
StageOf(step) ==
    CASE step = "Parsing Lua file..." -> "lex"
      [] step = "Building abstract syntax tree..." -> "parse"
      [] step = "Detecting VM handlers..." -> "detect_vm"
      [] step = "Finding encryption information..." -> "find_encryption"
      [] step = "Decrypting bytecode..." -> "decrypt"
      [] step = "Removing antidecompiler tricks..." -> "strip_antidecompile"
      [] step = "Optimizing bytecode..." -> "optimize"
      [] step = "Generating output file..." -> "emit"
      [] OTHER -> "none"

\* The stage events of the run so far
StageEvents == SelectSeq(events, LAMBDA e : StageOf(e.step) # "none")

-----------------------------------------------------------------------------
(* Characters the lexer has no token for *)

\* '@' and '$': no token of Lua starts with them
UnknownCharacters == {64, 36}

\* C14: tokenize returns a token list for every input, and the list holds
\* exactly one token of kind Unknown per character that cannot start a token,
\* in the order of the input and carrying that character.
C14_UnknownTokens ==
    fpc = "lexed" =>
        LET unknown == SelectSeq(fOut, LAMBDA t : t.type \in {"UNKNOWN", "Unknown"})
            characters == SelectSeq(fIn, LAMBDA c : c \in UnknownCharacters)
        IN  /\ Len(unknown) = Len(characters)
            /\ \A n \in 1..Len(unknown) : unknown[n].value = <<characters[n]>>

-----------------------------------------------------------------------------
(* Error recovery of the parser *)

StatementKeywords == {"FUNCTION", "LOCAL", "FOR", "IF", "WHILE", "RETURN"}

\* The position at which recovery from an error thrown at position e is to
\* resume: at the first statement keyword from e on, or behind the first ';'
\* from e on, or at the end of the input.
ResumePoint(toks, e) ==
    LET Stops(q) == \/ isAtEnd(toks, q)
                    \/ Cur(toks, q).type \in StatementKeywords
                    \/ q > e /\ toks[q].type = "SEMICOLON"
    IN  Min({q \in e..Len(toks) : Stops(q)})

\* C15: when the try block of parseStatement threw at position e, the call
\* returns with the parser at the resume point of e: the tokens discarded are
\* those before the next statement keyword, or up to and including the next
\* ';', and no statement keyword is among them.
C15_RecoveryKeepsKeywords ==
    fpc = "statement" /\ fOut.threw =>
        /\ fOut.position = ResumePoint(fOut.tokens, fOut.thrownAt)
        /\ \A q \in (fOut.thrownAt + 1)..fOut.position :
              fOut.tokens[q].type \notin StatementKeywords

-----------------------------------------------------------------------------
(* Encoding of strings in the chunk *)

\* C16: writeString writes a string of n >= 1 bytes as 1 + n bytes, the size
\* byte n + 1 followed by the n bytes of the string and no terminator, and
\* the empty string as the single byte 0.
C16_StringEncoding ==
    epc = "written" =>
        eOut = IF eIn.v = <<>> THEN <<0>>
               ELSE <<Len(Utf8(eIn.v)) + 1>> \o Utf8(eIn.v)

-----------------------------------------------------------------------------
(* The optimisation passes of the reconstructor *)

ArithmeticOpcodes == {LuaOpcode.ADD, LuaOpcode.SUB, LuaOpcode.MUL, LuaOpcode.DIV}

\* Same opcode and same a, b and c
SameOperation(x, y) ==
    x.opcode = y.opcode /\ x.a = y.a /\ x.b = y.b /\ x.c = y.c

\* No MOVE a a, no LOADK a directly followed by a LOADK a, and no arithmetic
\* instruction directly followed by an identical one
PeepholeClean(code) ==
    /\ \A i \in 1..Len(code) : ~(code[i].opcode = LuaOpcode.MOVE /\ code[i].a = code[i].b)
    /\ \A i \in 1..(Len(code) - 1) :
          /\ ~(/\ code[i].opcode = LuaOpcode.LOADK
               /\ code[i + 1].opcode = LuaOpcode.LOADK
               /\ code[i].a = code[i + 1].a)
          /\ ~(code[i].opcode \in ArithmeticOpcodes /\ SameOperation(code[i], code[i + 1]))

\* C17: the instruction list optimizeReconstructedBytecode leaves is a fixed
\* point of the peephole rules: none of the three patterns is left in it, and
\* removeRedundantInstructions returns it unchanged.
C17_PeepholeFixedPoint ==
    rpc = "optimized" /\ ~rOut.threw =>
        /\ PeepholeClean(rOut.proto.instructions)
        /\ removeRedundantInstructions(rOut.proto.instructions)
              = rOut.proto.instructions

\* The (type, value) pair of a constant
PairOf(c) == <<c.type, c.value>>

\* C18: optimizeConstantLoading leaves a pool that holds each distinct
\* (type, value) pair of the original pool exactly once, with the value as it
\* was, and every LOADK whose bx indexed a constant of the original pool
\* indexes a constant with the same (type, value) in the new pool.
C18_DeduplicationSound ==
    rpc = "deduplicated" =>
        LET before == rIn.constants
            after == rOut.proto.constants
            old == rIn.instructions
            new == rOut.proto.instructions
        IN  /\ ~rOut.threw
            /\ {PairOf(after[i]) : i \in 1..Len(after)}
                  = {PairOf(before[i]) : i \in 1..Len(before)}
            /\ \A i, j \in 1..Len(after) : PairOf(after[i]) = PairOf(after[j]) => i = j
            /\ \A n \in 1..Len(old) :
                  /\ old[n].opcode = LuaOpcode.LOADK
                  /\ old[n].bx # Undefined
                  /\ old[n].bx.m \in 0..(Len(before) - 1)
                  => /\ new[n].bx.m \in 0..(Len(after) - 1)
                     /\ PairOf(after[new[n].bx.m + 1]) = PairOf(before[old[n].bx.m + 1])

\* The pcs of a list that are reachable from pc 0: JMP with sbx goes to
\* pc + 1 + sbx, RETURN nowhere, every other instruction to pc + 1.
Successors(code, at) ==
    IF code[at + 1].opcode = LuaOpcode.JMP
    THEN (IF code[at + 1].sbx # Undefined THEN {at + 1 + code[at + 1].sbx.m} ELSE {})
    ELSE IF code[at + 1].opcode = LuaOpcode.RETURN THEN {}
    ELSE {at + 1}

RECURSIVE ReachableWithin(_, _, _)
ReachableWithin(code, seen, steps) ==
    IF steps = 0 THEN seen
    ELSE ReachableWithin(code,
             seen \cup {q \in 0..(Len(code) - 1) :
                           \E at \in seen : q \in Successors(code, at)},
             steps - 1)

Reachable(code) ==
    IF code = <<>> THEN {} ELSE ReachableWithin(code, {0}, Len(code))

\* C19: removeDeadCode returns for every instruction list, jumps to a target
\* before pc 0 or past the end included, and keeps in their original order
\* exactly the instructions whose pc is reachable from pc 0.
C19_KeepsReachable ==
    rpc = "swept" =>
        /\ ~rOut.threw
        /\ rOut.proto.instructions =
              LET code == rIn.instructions
                  kept == Reachable(code)
                  Nth(n) == CHOOSE q \in kept : Cardinality({r \in kept : r < q}) = n - 1
              IN  [n \in 1..Cardinality(kept) |-> code[Nth(n) + 1]]

\* The positions of an instruction list that are missing from a result of
\* the peephole pass; the line of an instruction tells it from the others.
DroppedAt(code, result) ==
    {at \in 1..Len(code) : \A n \in 1..Len(result) : result[n].line # code[at].line}

\* C20: the peephole pass drops an arithmetic instruction only when the
\* instruction directly behind it is identical to it (same opcode, a, b and
\* c); of two adjacent arithmetic instructions with equal operands and
\* different opcodes both are kept.
C20_OnlyIdenticalArithmetic ==
    rpc = "peephole" =>
        \A at \in DroppedAt(rIn.instructions, rOut) :
            rIn.instructions[at].opcode \in ArithmeticOpcodes =>
                /\ at < Len(rIn.instructions)
                /\ SameOperation(rIn.instructions[at + 1], rIn.instructions[at])

-----------------------------------------------------------------------------
(* Order of the lifted instructions *)

\* C21: reconstructFromVM lifts the handlers in ascending order of index, one
\* instruction per handler with the handler's index as its line: the
\* statistics count one instruction per handler, and in the returned proto
\* the lines are strictly increasing and each is the index of a handler.
C21_LinesAscending ==
    rpc = "reconstructed" /\ rOut.success =>
        LET code == rOut.proto.instructions
        IN  /\ rOut.statistics.instructionsReconstructed = Len(rIn.handlers)
            /\ \A n, m \in 1..Len(code) : n < m => code[n].line < code[m].line
            /\ \A n \in 1..Len(code) :
                  \E i \in 1..Len(rIn.handlers) :
                      rIn.handlers[i].value.index = code[n].line

\* A map filled in descending order of index whose two handlers are both
\* in the returned proto
C21_UnsortedLifted ==
    /\ rpc = "reconstructed" /\ rOut.success
    /\ Len(rIn.handlers) = 2 /\ rIn.handlers[1].key > rIn.handlers[2].key
    /\ Len(rOut.proto.instructions) = 2

-----------------------------------------------------------------------------
(* Callers of the analyzer's parts *)

\* The nodes LuaParser builds
IdentifierNode(name) ==
    [type |-> "Identifier", name |-> S(name), isObfuscated |-> FALSE]
NumberNode(n) == [type |-> "Literal", value |-> Num(n, 0), dataType |-> "number"]
BinaryNode(operator, left, right) ==
    [type |-> "BinaryExpression", left |-> left, operator |-> S(operator),
     right |-> right]
IndexNode(table, index) == BinaryNode("[]", IdentifierNode(table), index)
AssignmentNode(left, right) ==
    [type |-> "AssignmentExpression", left |-> <<left>>, right |-> <<right>>,
     isLocal |-> FALSE]
CallNode(callee, arguments) ==
    [type |-> "CallExpression", isVMCall |-> FALSE, callee |-> callee,
     arguments |-> arguments, vmOperation |-> "undefined"]
ReturnNode == [type |-> "ReturnStatement", arguments |-> <<>>]

BlockNode(statements) == [type |-> "BlockStatement", statements |-> statements]

\* The FunctionDeclaration node of a function of this name and body
FunctionNode(name, body) ==
    [type |-> "FunctionDeclaration",
     name |-> [IdentifierNode("") EXCEPT !.name = name],
     parameters |-> <<>>, body |-> body, isLocal |-> FALSE,
     isVMHandler |-> isVMHandler(name, body),
     handlerIndex |-> IF isVMHandler(name, body)
                      THEN Num(extractHandlerIndex(name), 0) ELSE Undefined]

HandlerNames ==
    {S("vm_gettable_1"), S("vm_settable_2"), S("vm_move_0"), S("vm_loadconst_3"),
     S("vm_add_4"), S("handler_5"), S("vm_x"), S("vm_jmp_6"), S("vm_table_7"),
     S("vm_call_1")}

\* The empty body and the body R[0] = K[1]
HandlerBodies ==
    {BlockNode(<<>>),
     BlockNode(<<AssignmentNode(IndexNode("R", NumberNode(0)),
                                IndexNode("K", NumberNode(1)))>>)}

\* The programs of at most MaxFunctions handler functions
MaxFunctions == 2
HandlerDeclarations ==
    {FunctionNode(name, body) : name \in HandlerNames, body \in HandlerBodies}
HandlerPrograms ==
    UNION {{BlockNode(functions) : functions \in [1..n -> HandlerDeclarations]} :
                n \in 1..MaxFunctions}

ProgramLines ==
    {S("{\"print\", 1, 2, 3, 4, 5}"), S("{\"a\", 1, 2, 3, 4, 5}"),
     S("k = \"0123456789ABCDEF\""), S("j = \"FEDCBA9876543210\""),
     S("x = \"print\"")}

\* The programs the parser returns for at most MaxProgramLines of these
\* lines: one statement for each line
MaxProgramLines == 2
LineNodes == {parse(tokenize(text)).statements[1] : text \in ProgramLines}
ParsedPrograms ==
    UNION {{BlockNode(statements) : statements \in [1..n -> LineNodes]} :
           n \in 1..MaxProgramLines}

ExtractVMHandlers ==
    /\ apc = "ast"
    /\ aOut' = SetAll(<<>>, extractVMHandlers(aIn))
    /\ apc' = "extracted"
    /\ UNCHANGED aIn
    /\ UNCHANGED <<pipeVars, decryptVars, emitVars, reconstructVars, frontVars, driverVars>>

AnalyzeGivenAST ==
    /\ apc = "ast"
    /\ aOut' = analyzeAST(aIn, NewVM)
    /\ apc' = "analyzed"
    /\ UNCHANGED aIn
    /\ UNCHANGED <<pipeVars, decryptVars, emitVars, reconstructVars, frontVars, driverVars>>

\* R[0] = R[1], R[x] = R[1], R[0] = K[y], R[2] = K[1], R[x](1), R[2](1),
\* return, R[0] = R[1] + R[z], R[0] = R[1] - R[2] and x = 1
StatementNodes ==
    {AssignmentNode(IndexNode("R", NumberNode(0)), IndexNode("R", NumberNode(1))),
     AssignmentNode(IndexNode("R", IdentifierNode("x")), IndexNode("R", NumberNode(1))),
     AssignmentNode(IndexNode("R", NumberNode(0)), IndexNode("K", IdentifierNode("y"))),
     AssignmentNode(IndexNode("R", NumberNode(2)), IndexNode("K", NumberNode(1))),
     CallNode(IndexNode("R", IdentifierNode("x")), <<NumberNode(1)>>),
     CallNode(IndexNode("R", NumberNode(2)), <<NumberNode(1)>>),
     ReturnNode,
     AssignmentNode(IndexNode("R", NumberNode(0)),
                    BinaryNode("+", IndexNode("R", NumberNode(1)),
                               IndexNode("R", IdentifierNode("z")))),
     AssignmentNode(IndexNode("R", NumberNode(0)),
                    BinaryNode("-", IndexNode("R", NumberNode(1)),
                               IndexNode("R", NumberNode(2)))),
     AssignmentNode(IdentifierNode("x"), NumberNode(1))}

\* The handler bodies of at most MaxLines statements
MaxLines == 2
ShortBodies ==
    UNION {{BlockNode(statements) : statements \in [1..n -> StatementNodes]} :
           n \in 0..MaxLines}

\* The handler bodies of MaxStatements - 2 to MaxStatements statements:
\* R[0] = R[1] repeated, and another statement at the end
MaxStatements == 1002
LongBodies ==
    {BlockNode([i \in 1..n |->
                   IF i = n THEN last
                   ELSE AssignmentNode(IndexNode("R", NumberNode(0)),
                                       IndexNode("R", NumberNode(1)))]) :
        n \in (MaxStatements - 2)..MaxStatements,
        last \in {ReturnNode, CallNode(IndexNode("R", NumberNode(2)), <<NumberNode(1)>>),
                  AssignmentNode(IndexNode("R", NumberNode(0)),
                                 IndexNode("R", NumberNode(1)))}}

HandlerFunctions ==
    {FunctionNode(S("handler_1"), body) : body \in ShortBodies \cup LongBodies}

ExecuteVMHandler ==
    /\ apc = "handler"
    /\ aOut' = executeVMHandler(aIn, [constants |-> <<>>])
    /\ apc' = "executed"
    /\ UNCHANGED aIn
    /\ UNCHANGED <<pipeVars, decryptVars, emitVars, reconstructVars, frontVars, driverVars>>

\* A program or a handler function, to which the analyzer's parts and the
\* symbolic executor are applied.
InitAnalyze ==
    /\ InitPipeline /\ InitDecryptIdle /\ InitEmitIdle /\ InitReconstructIdle
    /\ InitFrontIdle /\ InitDriver
    /\ \/ apc = "ast" /\ aIn \in HandlerPrograms \cup ParsedPrograms
       \/ apc = "handler" /\ aIn \in HandlerFunctions
    /\ aOut = <<>>

NextAnalyze ==
    \/ ExtractVMHandlers
    \/ AnalyzeGivenAST
    \/ ExecuteVMHandler

SpecAnalyze == InitAnalyze /\ [][NextAnalyze]_vars

-----------------------------------------------------------------------------
(* Properties of the analyzer, checked under SpecAnalyze *)

\* The opcodes the name rules give for a name: one per rule whose
\* substrings all occur in it
NameRules ==
    {<<{"move"}, LuaOpcode.MOVE>>, <<{"copy"}, LuaOpcode.MOVE>>,
     <<{"load", "const"}, LuaOpcode.LOADK>>, <<{"load", "bool"}, LuaOpcode.LOADBOOL>>,
     <<{"load", "nil"}, LuaOpcode.LOADNIL>>, <<{"call"}, LuaOpcode.CALL>>,
     <<{"return"}, LuaOpcode.RETURN>>, <<{"jump"}, LuaOpcode.JMP>>,
     <<{"jmp"}, LuaOpcode.JMP>>, <<{"add"}, LuaOpcode.ADD>>,
     <<{"sub"}, LuaOpcode.SUB>>, <<{"mul"}, LuaOpcode.MUL>>,
     <<{"div"}, LuaOpcode.DIV>>, <<{"get", "table"}, LuaOpcode.GETTABLE>>,
     <<{"set", "table"}, LuaOpcode.SETTABLE>>}

NamedOpcodes(name) ==
    {rule[2] : rule \in {r \in NameRules :
                            \A t \in r[1] : Includes(ToLower(name), S(t))}}

\* The functions of a program that are registered under the handler they
\* produced
RegisteredFunctions(node, map) ==
    {i \in 1..Len(node.statements) :
        /\ node.statements[i].type = "FunctionDeclaration"
        /\ node.statements[i].isVMHandler
        /\ MapHas(map, node.statements[i].handlerIndex.m)
        /\ MapGet(map, node.statements[i].handlerIndex.m).handler
              = extractHandlerCode(node.statements[i])}

\* C22: after analyzeAST every handler whose name contains a listed
\* substring has the opcode of that name rule (GETTABLE for get and table,
\* SETTABLE for set and table); the body rules never replace it.
C22_NameDecides ==
    apc = "analyzed" =>
        \A i \in RegisteredFunctions(aIn, aOut.handlers) :
            LET func == aIn.statements[i]
                named == NamedOpcodes(func.name.name)
            IN  named # {} =>
                    MapGet(aOut.handlers, func.handlerIndex.m).opcode \in named

\* C23: no instruction the symbolic executor emits has a negative operand;
\* a statement that indexes a register or a constant by a non-literal
\* expression emits nothing.
C23_NoNegativeOperand ==
    apc = "executed" /\ aOut.isComplete =>
        \A i \in 1..Len(aOut.operands) : aOut.operands[i] >= 0

\* C24: executeBlock interprets at most 1000 statements: the result for a
\* longer body is the result for its first 1000 statements.
C24_FirstThousand ==
    apc = "executed" /\ Len(aIn.body.statements) > 1000 =>
        aOut = executeBlock([aIn.body EXCEPT
                                !.statements = SubSeq(aIn.body.statements, 1, 1000)])

-----------------------------------------------------------------------------
(* Properties of the handler map, checked under Spec *)

\* The functions of the AST that the parser marked as VM handlers
MarkedHandlers(node) ==
    SelectSeq(Visit(node), LAMBDA n : n.type = "FunctionDeclaration" /\ n.isVMHandler)

\* C25: every function the parser marks as a VM handler has a handler index
\* that is a non-negative integer, so after analyzeAST every key of the
\* handler map is at least 0 and stands for exactly one marked function.
C25_NonNegativeIndex ==
    pc \in {"analyzed", "threw"} =>
        /\ \A i \in 1..Len(MarkedHandlers(ast)) :
              /\ MarkedHandlers(ast)[i].handlerIndex.k = "number"
              /\ MarkedHandlers(ast)[i].handlerIndex.m >= 0
        /\ \A i \in 1..Len(handlers) : handlers[i].key >= 0
        /\ Len(handlers) = Len(MarkedHandlers(ast))


\* C26: after analyzeAST, for any number of constant tables in the AST, the
\* constant list has dense indices starting at 0.
C26_DenseIndices ==
    apc = "analyzed" =>
        \A i \in 1..Len(aOut.constants) : aOut.constants[i].index = i - 1

\* The string literals of the program that are the first right-hand value
\* of an assignment and have the shape of a key, in traversal order
KeyLiterals(node) ==
    LET found == SelectSeq(Visit(node), LAMBDA n :
                     /\ n.type = "AssignmentExpression"
                     /\ n.right # <<>>
                     /\ n.right[1].type = "Literal"
                     /\ n.right[1].value.k = "string"
                     /\ isEncryptionKey(n.right[1].value.v))
    IN  [i \in 1..Len(found) |-> found[i].right[1].value.v]

\* C27: when several assignments of the AST have a key-shaped string literal
\* as their first right-hand value, the encryption key after analyzeAST is
\* the first of them in traversal order.
C27_FirstKeyKept ==
    apc = "analyzed" /\ KeyLiterals(aIn) # <<>> =>
        aOut.encryptionKey = KeyLiterals(aIn)[1]

-----------------------------------------------------------------------------
(* Properties of the expression grammar, checked under SpecFront *)

IsBinary(node, operators) ==
    node.type = "BinaryExpression" /\ node.operator \in operators

ConcatOperator == {S("..")}
AdditiveOperators == {S("+"), S("-")}
ComparisonOperators == {S("<"), S("<="), S(">"), S(">=")}

\* C28: the concatenation operator is right-associative, binds looser than
\* the additive operators and tighter than the comparisons: in an expression
\* without parentheses the left operand of `..` is never a `..` expression,
\* no operand of `..` is a comparison and no operand of `+` is a `..`
\* expression.
C28_ConcatRightAssociative ==
    fpc = "parsed" =>
        \A i \in 1..Len(fOut.statements) :
            LET node == fOut.statements[i]
            IN  /\ IsBinary(node, ConcatOperator) =>
                      /\ ~IsBinary(node.left, ConcatOperator)
                      /\ ~IsBinary(node.left, ComparisonOperators)
                      /\ ~IsBinary(node.right, ComparisonOperators)
                /\ IsBinary(node, AdditiveOperators) =>
                      /\ ~IsBinary(node.left, ConcatOperator)
                      /\ ~IsBinary(node.right, ConcatOperator)

-----------------------------------------------------------------------------
(* Termination of the parser *)

\* C29: for every token list ending in EOF parse returns a Block without
\* throwing, and the loops of parse and parseBlock make progress: a
\* parseStatement call that starts before the end returns with the parser
\* further on and within the list, also when it recovered from an error.
C29_ParseProgresses ==
    /\ fpc = "parsed" => fOut.type = "BlockStatement"
    /\ fpc = "statement" =>
          \A p \in 0..(Len(fOut.tokens) - 1) :
              LET stmt == Invoke("parseStatement", fOut.tokens, p, <<>>)
              IN  ~isAtEnd(fOut.tokens, p) =>
                      stmt.pos > p /\ stmt.pos <= Len(fOut.tokens)

\* A statement that threw at its first token, after which the parser stands
\* behind a ';' before further tokens
C29_RecoveredBeforeEnd ==
    /\ fpc = "statement" /\ fOut.threw /\ fOut.thrownAt = 0
    /\ fOut.position = 1 /\ fOut.tokens[1].type = "SEMICOLON"
    /\ ~isAtEnd(fOut.tokens, fOut.position)

-----------------------------------------------------------------------------
(* Termination of the lexer *)

\* C30: for every input tokenize returns a list that ends with its one EOF
\* token, and the offsets of the tokens are strictly increasing; every
\* nextToken call advances the scan position by at least one character and
\* no token starts before the scan position the token before it ended at.
C30_TokensInOrder ==
    fpc = "lexed" =>
        /\ fOut # <<>> /\ fOut[Len(fOut)].type = "EOF"
        /\ \A i \in 1..(Len(fOut) - 1) :
              /\ fOut[i].type # "EOF"
              /\ fOut[i].position < fOut[i + 1].position
              /\ nextToken(fIn, fOut[i].position).tok = fOut[i]
              /\ nextToken(fIn, fOut[i].position).pos <= fOut[i + 1].position
        /\ \A p \in 0..(Len(fIn) - 1) :
              nextToken(fIn, p).pos > p /\ nextToken(fIn, p).pos <= Len(fIn)

\* An input with a tab or a newline in it, lexed into at least two tokens
\* and EOF
C30_SeveralTokens ==
    /\ fpc = "lexed" /\ Len(fOut) >= 3
    /\ \E i \in 1..Len(fIn) : fIn[i] \in {9, 10}

=============================================================================
